---- MODULE Spec2Model ----
(***************************************************************************)
(* page_annotator: the annotation data store (data_store.py) and the       *)
(* request router (app.py), as a state machine.                            *)
(*                                                                         *)
(* Text values (CSV cells, submitted strings) are sequences of one-        *)
(* character strings, so that strip(), lower(), re.split() and str() are   *)
(* computed and not assumed.  Column and field names are only ever         *)
(* compared for equality and are plain strings.                            *)
(***************************************************************************)
EXTENDS Integers, Sequences, FiniteSets, TLC

VARIABLES
    config,             \* AppState.config: the AppConfig in service
    data_file,          \* the source CSV: [header, rows]
    annotation_output,  \* the output CSV on disk: [exists, header, rows]
    data_store,         \* AppState.data_store: the AnnotationDataStore in service
    request,            \* the request the router handled last
    response,           \* the response it gave
    outbound,           \* the outbound fetches that handler issued, in order
    workers,            \* threaded router: each worker thread's position in a save
    handles,            \* threaded router: each worker's open handle on the output file
    config_file,        \* the configuration file on disk, as AppConfig.load reads it
    playwright          \* the PlaywrightWorker thread, its queue and its callers

vars == <<config, data_file, annotation_output, data_store, request, response,
          outbound, workers, handles,
         config_file, playwright>>

(***************************************************************************)
(* Bounds.                                                                 *)
(***************************************************************************)
\* The longest dataset loaded (rows of the source CSV).
MaxRows == 2

\* Worker threads of the threaded router.
NumWorkers == 2

\* Calls each thread of the JS bridge makes to PlaywrightWorker.call.
MaxCalls == 2

(***************************************************************************)
(* Python values.                                                          *)
(***************************************************************************)
\* str
PyStr(s) == [t |-> "str", s |-> s, l |-> <<>>]
\* int, held by its decimal digits
PyInt(digits) == [t |-> "int", s |-> digits, l |-> <<>>]
\* None
PyNone == [t |-> "none", s |-> <<>>, l |-> <<>>]
\* list of str
PyList(items) == [t |-> "list", s |-> <<>>, l |-> items]

\* The absent value of an Optional[str] configuration attribute.
None == "<None>"

Max(a, b) == IF a >= b THEN a ELSE b

Range(f) == {f[i] : i \in DOMAIN f}

\* str.isspace for one character
IsSpace(c) == c \in {" ", "\t", "\n", "\r"}

UpperCase == <<"A","B","C","D","E","F","G","H","I","J","K","L","M",
               "N","O","P","Q","R","S","T","U","V","W","X","Y","Z">>
LowerCase == <<"a","b","c","d","e","f","g","h","i","j","k","l","m",
               "n","o","p","q","r","s","t","u","v","w","x","y","z">>

\* str.lower
Lower(s) ==
    [i \in 1..Len(s) |->
        IF \E k \in 1..26 : UpperCase[k] = s[i]
        THEN LowerCase[CHOOSE k \in 1..26 : UpperCase[k] = s[i]]
        ELSE s[i]]

RECURSIVE LStrip(_)
LStrip(s) == IF s # <<>> /\ IsSpace(Head(s)) THEN LStrip(Tail(s)) ELSE s

RECURSIVE RStrip(_)
RStrip(s) ==
    IF s # <<>> /\ IsSpace(s[Len(s)]) THEN RStrip(SubSeq(s, 1, Len(s) - 1)) ELSE s

\* str.strip
Strip(s) == RStrip(LStrip(s))

Digits == <<"0","1","2","3","4","5","6","7","8","9">>

\* str(n) for an int n >= 0
RECURSIVE IntToStr(_)
IntToStr(n) ==
    IF n < 10 THEN <<Digits[n + 1]>>
    ELSE IntToStr(n \div 10) \o <<Digits[(n % 10) + 1]>>

IsDigit(c) == \E k \in 1..10 : Digits[k] = c

DigitValue(c) == (CHOOSE k \in 1..10 : Digits[k] = c) - 1

RECURSIVE DigitsValue(_)
DigitsValue(s) ==
    IF s = <<>> THEN 0
    ELSE 10 * DigitsValue(SubSeq(s, 1, Len(s) - 1)) + DigitValue(s[Len(s)])

\* int(text): [ok |-> FALSE] stands for ValueError
ParseInt(text) ==
    LET s == Strip(text)
        signed == s # <<>> /\ Head(s) \in {"+", "-"}
        body == IF signed THEN Tail(s) ELSE s
    IN  IF body # <<>> /\ \A i \in 1..Len(body) : IsDigit(body[i])
        THEN [ok |-> TRUE,
              value |-> IF signed /\ Head(s) = "-" THEN 0 - DigitsValue(body)
                        ELSE DigitsValue(body)]
        ELSE [ok |-> FALSE, value |-> 0]

\* what csv.writer puts in a cell: None is the empty cell, anything else str(value)
CellText(v) == IF v.t = "none" THEN <<>> ELSE v.s

\* separator.join(items)
RECURSIVE Join(_, _)
Join(sep, items) ==
    IF items = <<>> THEN <<>>
    ELSE IF Len(items) = 1 THEN items[1]
    ELSE items[1] \o sep \o Join(sep, Tail(items))

\* dict.get(key, default) on a mapping held as a function
Get(d, key, default) == IF key \in DOMAIN d THEN d[key] ELSE default

\* d[key] = value
Put(d, key, value) == [k \in (DOMAIN d) \cup {key} |-> IF k = key THEN value ELSE d[k]]

EmptyDict == [k \in {} |-> 0]

(***************************************************************************)
(* Configurations and datasets the store is loaded from.                   *)
(*                                                                         *)
(* AppConfig (configuration.py:143-155), as AppConfig.load returns it:     *)
(* annotator_column is a non-empty name or None, annotator_filter is a     *)
(* non-empty list or absent (<<>>), a field's separator is a string or     *)
(* absent (<<>>).  The annotation field names are distinct and differ from *)
(* the identity column and the annotator column; the source columns are    *)
(* free to collide with any of them.                                       *)
(***************************************************************************)
ENTRY_ID_COLUMN == "entry_id"

AnnotationFieldConfig(name, separator) == [name |-> name, separator |-> separator]

AppConfig(fields, annotator_column, annotator_filter) ==
    [url_column |-> "url",
     annotation_fields |-> fields,
     annotator_column |-> annotator_column,
     annotator_filter |-> annotator_filter,
     default_list_separator |-> <<";">>]

\* AppConfig.annotation_field_names
annotation_field_names(cfg) ==
    [i \in 1..Len(cfg.annotation_fields) |-> cfg.annotation_fields[i].name]

\* The cells of the source rows, column by column, in row order.
SourceCells ==
    [url |-> << <<"u","0">>, <<"u","1">>, <<"u","2">>, <<"u","3">> >>,
     who |-> << <<"a","l","i","c","e",";","b","o","b">>,
                <<"b","o","b">>,
                <<"b","o","b",","," ","A","l","i","c","e">>,
                <<>> >>,
     label |-> << <<" ","x"," ">>, <<>>, <<"y">>, <<"z">> >>,
     entry_id |-> << <<"1">>, <<"0">>, <<"k">>, <<"3">> >>]

\* The source CSV with the given header and its first n rows (csv.DictReader rows).
DataFile(header, n) ==
    [header |-> header,
     rows |-> [i \in 1..n |-> [c \in Range(header) |-> SourceCells[c][i]]]]

\* The (configuration, source header) pairs loaded.
Scenarios ==
    { \* two fields, no annotator column; the source already has a 'label' column
      [cfg |-> AppConfig(<<AnnotationFieldConfig("label", <<",">>),
                           AnnotationFieldConfig("note", <<>>)>>, None, <<>>),
       header |-> <<"url", "label">>],
      \* annotator column with an allow-list
      [cfg |-> AppConfig(<<AnnotationFieldConfig("label", <<>>)>>, "who",
                         << <<"A","l","i","c","e">> >>),
       header |-> <<"url", "who">>],
      \* annotator column, no allow-list; the source has its own 'entry_id' column
      [cfg |-> AppConfig(<<AnnotationFieldConfig("label", <<>>)>>, "who", <<>>),
       header |-> <<"entry_id", "url", "who">>] }

NoFile == [exists |-> FALSE, header |-> <<>>, rows |-> <<>>]

(***************************************************************************)
(* AnnotationDataStore.                                                    *)
(***************************************************************************)
\* _load_entries numbering the rows from 1 (enumerate(reader, 1))
_load_entries_from_one(cfg, data) ==
    [i \in 1..Len(data.rows) |->
        [id |-> i, url |-> data.rows[i][cfg.url_column], data |-> data.rows[i]]]

\* _load_entries, for a dataset every row of which has a URL
\* _load_entries raising: no file or no header row, an allow-list whose
\* annotator column the header lacks, a row without a URL, no rows at all
_load_entries_raises(cfg, data) ==
    \/ data.header = <<>>
    \/ /\ cfg.annotator_filter # <<>>
       /\ cfg.annotator_column # None
       /\ ~\E i \in 1..Len(data.header) : data.header[i] = cfg.annotator_column
    \/ \E i \in 1..Len(data.rows) :
          \/ cfg.url_column \notin DOMAIN data.rows[i]
          \/ data.rows[i][cfg.url_column] = <<>>
    \/ data.rows = <<>>

_load_entries(cfg, data) ==
    [i \in 1..Len(data.rows) |->
        [id |-> i - 1, url |-> data.rows[i][cfg.url_column], data |-> data.rows[i]]]

\* __init__: _allowed_annotators (the empty set stands for None)
_allowed_annotators(cfg) ==
    {Lower(cfg.annotator_filter[i]) : i \in 1..Len(cfg.annotator_filter)}

AnnotatorDelims == {";", ",", "|", "\n"}

\* re.split(r"[;,|\n]+", text): cur is the token being read, inRun says the
\* previous character was a delimiter
RECURSIVE ReSplit(_, _, _)
ReSplit(rest, cur, inRun) ==
    IF rest = <<>> THEN <<cur>>
    ELSE IF Head(rest) \in AnnotatorDelims
         THEN IF inRun THEN ReSplit(Tail(rest), <<>>, TRUE)
              ELSE <<cur>> \o ReSplit(Tail(rest), <<>>, TRUE)
         ELSE ReSplit(Tail(rest), Append(cur, Head(rest)), FALSE)

\* _split_annotator_values taking the whole value as one token (no re.split)
_split_annotator_values_whole(value) ==
    IF Strip(value) = <<>> THEN <<>> ELSE <<Strip(value)>>

\* _split_annotator_values
_split_annotator_values(value) ==
    LET text == Strip(value)
        tokens == IF \E i \in 1..Len(text) : text[i] \in AnnotatorDelims
                  THEN ReSplit(text, <<>>, FALSE)
                  ELSE <<text>>
        kept == SelectSeq(tokens, LAMBDA tok : tok # <<>> /\ Strip(tok) # <<>>)
    IN  IF text = <<>> THEN <<>>
        ELSE [i \in 1..Len(kept) |-> Strip(kept[i])]

_annotator_matches_filter(allowed, raw_value) ==
    IF allowed = {} THEN TRUE
    ELSE LET tokens == _split_annotator_values(raw_value)
         IN  \E i \in 1..Len(tokens) : Lower(tokens[i]) \in allowed

\* _apply_visibility_filter: [filtered |-> FALSE] is _visible_entry_ids = None
_apply_visibility_filter(cfg, entries) ==
    IF _allowed_annotators(cfg) = {} \/ cfg.annotator_column = None
    THEN [filtered |-> FALSE, ids |-> <<>>]
    ELSE LET vis == SelectSeq(entries, LAMBDA e :
                        _annotator_matches_filter(_allowed_annotators(cfg),
                            Get(e.data, cfg.annotator_column, <<>>)))
         IN  [filtered |-> TRUE, ids |-> [i \in 1..Len(vis) |-> vis[i].id]]

\* _seed_annotations_from_source, the record prefilled for one entry
Prefilled(cfg, row) ==
    LET names == {cfg.annotation_fields[i].name : i \in 1..Len(cfg.annotation_fields)}
        seeded == {f \in names : f \in DOMAIN row /\ Strip(row[f]) # <<>>}
    IN  [f \in seeded |-> PyStr(Strip(row[f]))]

_seed_annotations_from_source(cfg, entries) ==
    LET withRecord == {i \in 1..Len(entries) : DOMAIN Prefilled(cfg, entries[i].data) # {}}
        withAnnotator ==
            {i \in 1..Len(entries) :
                /\ cfg.annotator_column # None
                /\ cfg.annotator_column \in DOMAIN entries[i].data
                /\ Strip(entries[i].data[cfg.annotator_column]) # <<>>}
    IN  [annotations |-> [id \in {i - 1 : i \in withRecord} |->
                            Prefilled(cfg, entries[id + 1].data)],
         annotators |-> [id \in {i - 1 : i \in withAnnotator} |->
                            Strip(entries[id + 1].data[cfg.annotator_column])]]

\* csv.DictReader's row: a repeated header name keeps the last cell of that name
HasColumn(header, name) == \E i \in 1..Len(header) : header[i] = name

LastColumn(header, name) ==
    CHOOSE i \in 1..Len(header) :
        header[i] = name /\ \A j \in (i + 1)..Len(header) : header[j] # name

RowGet(header, cells, name, default) ==
    IF HasColumn(header, name) THEN cells[LastColumn(header, name)] ELSE default

\* row.get(name, default) as a value: csv.DictReader fills the cells a short row
\* lacks with None (restval), and the default is for a column the header lacks
RowCell(header, cells, name, default) ==
    IF ~HasColumn(header, name) THEN default
    ELSE IF LastColumn(header, name) > Len(cells) THEN PyNone
    ELSE PyStr(cells[LastColumn(header, name)])

\* _load_existing_annotations, rows n..Len(rows) applied in order on top of acc;
\* the rows read carry their identity cell and their annotator cell
RECURSIVE LoadRows(_, _, _, _)
LoadRows(cfg, file, n, acc) ==
    IF n > Len(file.rows) THEN acc
    ELSE LET cells == file.rows[n]
             parsed == ParseInt(RowGet(file.header, cells, ENTRY_ID_COLUMN, <<>>))
             names == {cfg.annotation_fields[i].name : i \in 1..Len(cfg.annotation_fields)}
             annotation_values ==
                 [f \in names |-> RowCell(file.header, cells, f, PyStr(<<>>))]
             next ==
                 IF ~parsed.ok THEN acc
                 ELSE [annotations |-> Put(acc.annotations, parsed.value, annotation_values),
                       annotators |->
                           IF cfg.annotator_column # None
                           THEN Put(acc.annotators, parsed.value,
                                    RowGet(file.header, cells, cfg.annotator_column, <<>>))
                           ELSE acc.annotators]
         IN  LoadRows(cfg, file, n + 1, next)

_load_existing_annotations(cfg, file, seeded) ==
    IF ~file.exists THEN seeded
    ELSE IF file.header = <<>> \/ ~HasColumn(file.header, ENTRY_ID_COLUMN) THEN seeded
    ELSE LoadRows(cfg, file, 1, seeded)

\* __init__: the store built from a configuration, the source CSV and the output
\* file found on disk
AnnotationDataStore(cfg, data, file) ==
    LET entries == _load_entries(cfg, data)
        loaded == _load_existing_annotations(cfg, file,
                      _seed_annotations_from_source(cfg, entries))
    IN  [config |-> cfg,
         entries |-> entries,
         csv_fieldnames |-> data.header,
         visible |-> _apply_visibility_filter(cfg, entries),
         annotations |-> loaded.annotations,
         annotators |-> loaded.annotators]

get_entry_raises(store, entry_id) == ~\E i \in 1..Len(store.entries) : store.entries[i].id = entry_id

_is_entry_visible(store, entry_id) ==
    IF ~store.visible.filtered THEN TRUE
    ELSE \E i \in 1..Len(store.visible.ids) : store.visible.ids[i] = entry_id

\* _join_list joining with the default separator whatever the field's own is
_join_list_default(cfg, field, values) ==
    LET kept == SelectSeq(values, LAMBDA v : Strip(v) # <<>>)
    IN  Join(cfg.default_list_separator, [i \in 1..Len(kept) |-> Strip(kept[i])])

\* _join_list
_join_list(cfg, field, values) ==
    LET separator == IF field.separator # <<>> THEN field.separator
                     ELSE cfg.default_list_separator
        kept == SelectSeq(values, LAMBDA v : Strip(v) # <<>>)
    IN  Join(separator, [i \in 1..Len(kept) |-> Strip(kept[i])])

\* save_annotation, lines 170-176: the record prepared from a submission
Prepared(cfg, payload) ==
    LET fields == cfg.annotation_fields
        FieldOf(name) == fields[CHOOSE i \in 1..Len(fields) : fields[i].name = name]
        Value(name) == Get(payload, name, PyNone)
    IN  [name \in {fields[i].name : i \in 1..Len(fields)} |->
            IF Value(name).t = "list" THEN PyStr(_join_list(cfg, FieldOf(name), Value(name).l))
            ELSE IF Value(name).t # "none" THEN Value(name)
            ELSE PyStr(<<>>)]

\* save_annotation updating the record in place: a field submitted empty keeps the
\* value the record had
StoreRecord_merge(cfg, store, entry_id, prepared, annotator) ==
    LET before == Get(store.annotations, entry_id, EmptyDict)
        merged == [f \in (DOMAIN before) \cup (DOMAIN prepared) |->
                      IF f \in DOMAIN prepared /\ prepared[f] # PyStr(<<>>) THEN prepared[f]
                      ELSE IF f \in DOMAIN before THEN before[f]
                      ELSE prepared[f]]
    IN  [store EXCEPT
            !.annotations = Put(@, entry_id, merged),
            !.annotators = IF cfg.annotator_column # None THEN Put(@, entry_id, annotator)
                           ELSE @]

\* save_annotation recomputing the entry's visibility from the annotator it assigns
StoreRecord_revisible(cfg, store, entry_id, prepared, annotator) ==
    [store EXCEPT
        !.annotations = Put(@, entry_id, prepared),
        !.annotators = IF cfg.annotator_column # None THEN Put(@, entry_id, annotator)
                       ELSE @,
        !.visible.ids =
            IF store.visible.filtered
               /\ ~_annotator_matches_filter(_allowed_annotators(cfg), annotator)
            THEN SelectSeq(@, LAMBDA i : i # entry_id)
            ELSE @]

\* save_annotation, lines 177-179: the in-memory update
StoreRecord(cfg, store, entry_id, prepared, annotator) ==
    [store EXCEPT
        !.annotations = Put(@, entry_id, prepared),
        !.annotators = IF cfg.annotator_column # None THEN Put(@, entry_id, annotator)
                       ELSE @]

\* _persist_annotations: the header written
OutputHeader(cfg, store) ==
    <<ENTRY_ID_COLUMN>> \o store.csv_fieldnames \o annotation_field_names(cfg)
        \o (IF cfg.annotator_column # None THEN <<cfg.annotator_column>> ELSE <<>>)

\* _persist_annotations, lines 200-205: the row dict of one entry; each update
\* overwrites the keys already there
OutputRowDict(cfg, store, entry) ==
    LET identity == [k \in {ENTRY_ID_COLUMN} |-> PyInt(IntToStr(entry.id))]
        source == [c \in DOMAIN entry.data |-> PyStr(entry.data[c])]
        record == Get(store.annotations, entry.id, EmptyDict)
        annotator == IF cfg.annotator_column # None
                     THEN [k \in {cfg.annotator_column} |->
                              PyStr(Get(store.annotators, entry.id, <<>>))]
                     ELSE EmptyDict
    IN  annotator @@ record @@ source @@ identity

\* csv.DictWriter.writerow: one cell per header column, "" for a missing key
OutputRow(cfg, store, entry) ==
    LET header == OutputHeader(cfg, store)
        row == OutputRowDict(cfg, store, entry)
    IN  [i \in 1..Len(header) |-> CellText(Get(row, header[i], PyStr(<<>>)))]

\* _persist_annotations writing the visible entries only
_persist_annotations_visible(cfg, store) ==
    LET shown == SelectSeq(store.entries, LAMBDA e : _is_entry_visible(store, e.id))
    IN  [exists |-> TRUE,
         header |-> OutputHeader(cfg, store),
         rows |-> [i \in 1..Len(shown) |-> OutputRow(cfg, store, shown[i])]]

_persist_annotations(cfg, store) ==
    [exists |-> TRUE,
     header |-> OutputHeader(cfg, store),
     rows |-> [i \in 1..Len(store.entries) |-> OutputRow(cfg, store, store.entries[i])]]

\* formatted_entries
formatted_entries(store) ==
    IF ~store.visible.filtered THEN store.entries
    ELSE LET ids == SelectSeq(store.visible.ids, LAMBDA i : ~get_entry_raises(store, i))
         IN  [k \in 1..Len(ids) |-> store.entries[ids[k] + 1]]

\* annotations_for_client without the visibility test
annotations_for_client_all(store) == store.annotations

\* annotations_for_client
annotations_for_client(store) ==
    IF ~store.visible.filtered THEN store.annotations
    ELSE [id \in {k \in DOMAIN store.annotations : k \in Range(store.visible.ids)} |->
             store.annotations[id]]

\* annotators_for_client
annotators_for_client(store) ==
    IF ~store.visible.filtered THEN store.annotators
    ELSE [id \in {k \in DOMAIN store.annotators : k \in Range(store.visible.ids)} |->
             store.annotators[id]]

(***************************************************************************)
(* The frame analyzer and the header probe (app.py).                       *)
(***************************************************************************)
\* str.split(sep) for a one-character separator: cur is the piece being read
RECURSIVE SplitOn(_, _, _)
SplitOn(rest, sep, cur) ==
    IF rest = <<>> THEN <<cur>>
    ELSE IF Head(rest) = sep THEN <<cur>> \o SplitOn(Tail(rest), sep, <<>>)
    ELSE SplitOn(Tail(rest), sep, Append(cur, Head(rest)))

\* str.split(): pieces between runs of whitespace, none of them empty
RECURSIVE SplitWhitespace(_, _)
SplitWhitespace(rest, cur) ==
    IF rest = <<>> THEN (IF cur = <<>> THEN <<>> ELSE <<cur>>)
    ELSE IF IsSpace(Head(rest))
         THEN (IF cur = <<>> THEN <<>> ELSE <<cur>>) \o SplitWhitespace(Tail(rest), <<>>)
         ELSE SplitWhitespace(Tail(rest), Append(cur, Head(rest)))

StartsWith(s, prefix) == Len(s) >= Len(prefix) /\ SubSeq(s, 1, Len(prefix)) = prefix

\* The literals of _frame_blocked, as text.
DENY_TXT == <<"d","e","n","y">>

SAMEORIGIN_TXT == <<"s","a","m","e","o","r","i","g","i","n">>

FA_TXT == <<"f","r","a","m","e","-","a","n","c","e","s","t","o","r","s">>

QNONE_TXT == <<"'","n","o","n","e","'">>

QSELF_TXT == <<"'","s","e","l","f","'">>

XFO_TXT == <<"x","f","o",":">>

CSP_NONE_TXT == <<"c","s","p",":","f","r","a","m","e","-","a","n","c","e","s","t","o","r","s","-","n","o","n","e">>

CSP_SELF_TXT == <<"c","s","p",":","f","r","a","m","e","-","a","n","c","e","s","t","o","r","s","-","s","e","l","f">>

CSP_OTHER_TXT == <<"c","s","p",":","f","r","a","m","e","-","a","n","c","e","s","t","o","r","s","-","o","t","h","e","r">>

BLOCKING_XFO == {DENY_TXT, SAMEORIGIN_TXT}

\* the first frame-ancestors directive's verdict (lines 159-169)
RECURSIVE FrameAncestors(_)
FrameAncestors(directives) ==
    IF directives = <<>> THEN [blocked |-> FALSE, reason |-> <<>>]
    ELSE IF ~StartsWith(Lower(Head(directives)), FA_TXT)
         THEN FrameAncestors(Tail(directives))
    ELSE LET tokens == Tail(SplitWhitespace(Head(directives), <<>>))
             lowered == {Lower(tokens[i]) : i \in 1..Len(tokens)}
         IN  IF QNONE_TXT \in lowered
             THEN [blocked |-> TRUE, reason |-> CSP_NONE_TXT]
             ELSE IF QSELF_TXT \in lowered
             THEN [blocked |-> TRUE, reason |-> CSP_SELF_TXT]
             ELSE [blocked |-> TRUE, reason |-> CSP_OTHER_TXT]

\* _frame_blocked reading the Content-Security-Policy before the X-Frame-Options
_frame_blocked_csp_first(headers) ==
    LET normalized == Lower(Strip(SplitOn(headers.xfo, ",", <<>>)[1]))
        chunks == SplitOn(headers.csp, ";", <<>>)
        kept == SelectSeq(chunks, LAMBDA c : Strip(c) # <<>>)
        directives == [i \in 1..Len(kept) |-> Strip(kept[i])]
    IN  IF headers.csp # <<>> /\ FrameAncestors(directives).blocked
        THEN FrameAncestors(directives)
        ELSE IF headers.xfo # <<>> /\ normalized \in BLOCKING_XFO
        THEN [blocked |-> TRUE, reason |-> XFO_TXT \o normalized]
        ELSE [blocked |-> FALSE, reason |-> <<>>]

\* _frame_blocked; headers is [xfo, csp], <<>> for a header not sent; a reason
\* of <<>> is None
_frame_blocked(headers) ==
    LET normalized == Lower(Strip(SplitOn(headers.xfo, ",", <<>>)[1]))
        chunks == SplitOn(headers.csp, ";", <<>>)
        kept == SelectSeq(chunks, LAMBDA c : Strip(c) # <<>>)
        directives == [i \in 1..Len(kept) |-> Strip(kept[i])]
    IN  IF headers.xfo # <<>> /\ normalized \in BLOCKING_XFO
        THEN [blocked |-> TRUE, reason |-> XFO_TXT \o normalized]
        ELSE IF headers.csp = <<>> THEN [blocked |-> FALSE, reason |-> <<>>]
        ELSE FrameAncestors(directives)

(***************************************************************************)
(* The HTML rewriter (app.py 178-259).  A parsed document is the resolved  *)
(* URL it came from (resp.url), whether html.parser accepts it, whether it *)
(* has a head element, the href of each base element of that head, and its *)
(* elements, each with one attribute.  URLs are texts; the origins here    *)
(* all use the http scheme.                                                *)
(***************************************************************************)
EndsWith(s, suffix) ==
    Len(s) >= Len(suffix) /\ SubSeq(s, Len(s) - Len(suffix) + 1, Len(s)) = suffix

\* the part of s before the first character of stops
RECURSIVE UpTo(_, _)
UpTo(s, stops) ==
    IF s = <<>> \/ Head(s) \in stops THEN <<>>
    ELSE <<Head(s)>> \o UpTo(Tail(s), stops)

\* the part of s up to and including its last "/"
RECURSIVE Directory(_)
Directory(s) ==
    IF s = <<>> \/ s[Len(s)] = "/" THEN s
    ELSE Directory(SubSeq(s, 1, Len(s) - 1))

HTTP_TXT == <<"h","t","t","p",":","/","/">>

PDF_TXT == <<".","p","d","f">>

RESOURCE_PROXY_TXT == <<"/","a","p","i","/","p","r","o","x","y","/","r","e","s","o","u","r","c","e","?","u","r","l","=">>

HasScheme(url) == StartsWith(url, HTTP_TXT)

\* urlparse(url).netloc and .path of an http URL
Netloc(url) == UpTo(SubSeq(url, Len(HTTP_TXT) + 1, Len(url)), {"/", "?", "#"})

urlparse_path(url) ==
    UpTo(SubSeq(url, Len(HTTP_TXT) + Len(Netloc(url)) + 1, Len(url)), {"?", "#"})

\* urlsplit refuses a netloc with an unbalanced bracket: ValueError("Invalid IPv6 URL")
urljoin_raises(value) ==
    /\ HasScheme(value)
    /\ \E i \in 1..Len(Netloc(value)) : Netloc(value)[i] = "["
    /\ ~\E i \in 1..Len(Netloc(value)) : Netloc(value)[i] = "]"

\* urljoin(base, value) for a non-empty value: a full URL, a path from the
\* root, a fragment, or a path relative to the base's directory
urljoin(base, value) ==
    IF HasScheme(value) THEN value
    ELSE IF Head(value) = "/" THEN HTTP_TXT \o Netloc(base) \o value
    ELSE IF Head(value) = "#" THEN UpTo(base, {"#"}) \o value
    ELSE HTTP_TXT \o Netloc(base) \o Directory(urlparse_path(base)) \o value

\* quote(text, safe=''): everything but letters, digits and "_.-~" is escaped
Unreserved ==
    {LowerCase[k] : k \in 1..26} \cup {UpperCase[k] : k \in 1..26}
    \cup {Digits[k] : k \in 1..10} \cup {"_", ".", "-", "~"}

Escapes ==
    (":" :> <<"%","3","A">>) @@ ("/" :> <<"%","2","F">>) @@ ("?" :> <<"%","3","F">>)
    @@ ("=" :> <<"%","3","D">>) @@ ("#" :> <<"%","2","3">>) @@ (" " :> <<"%","2","0">>)
    @@ ("[" :> <<"%","5","B">>) @@ ("," :> <<"%","2","C">>)

RECURSIVE quote(_)
quote(text) ==
    IF text = <<>> THEN <<>>
    ELSE (IF Head(text) \in Unreserved THEN <<Head(text)>> ELSE Escapes[Head(text)])
         \o quote(Tail(text))

\* _should_proxy_download comparing the path as written
_should_proxy_download_case_sensitive(url) ==
    urlparse_path(url) # <<>> /\ EndsWith(urlparse_path(url), PDF_TXT)

_should_proxy_download(url) ==
    LET path == Lower(urlparse_path(url))
    IN  path # <<>> /\ EndsWith(path, PDF_TXT)

RESOURCE_ATTRS ==
    {<<"a", "href">>, <<"img", "src">>, <<"img", "srcset">>, <<"script", "src">>,
     <<"link", "href">>, <<"iframe", "src">>, <<"source", "src">>,
     <<"source", "srcset">>, <<"video", "poster">>, <<"video", "src">>,
     <<"audio", "src">>, <<"form", "action">>}

\* the candidates of a srcset value: stripped, non-empty, split on whitespace
SrcsetCandidates(value) ==
    LET parts == SplitOn(value, ",", <<>>)
        kept == SelectSeq(parts, LAMBDA part : Strip(part) # <<>>)
    IN  [i \in 1..Len(kept) |-> SplitWhitespace(Strip(kept[i]), <<>>)]

_rewrite_srcset(value, base_url) ==
    LET segments == SrcsetCandidates(value)
        candidates ==
            [i \in 1..Len(segments) |->
                LET url == urljoin(base_url, segments[i][1])
                    descriptor == Join(<<" ">>, Tail(segments[i]))
                IN  IF descriptor # <<>> THEN url \o <<" ">> \o descriptor ELSE url]
    IN  Join(<<",", " ">>, candidates)

Element(tag, attr, value) == [tag |-> tag, attr |-> attr, value |-> value]

\* does the loop of _rewrite_html touch the attribute (lines 200-206)
Rewritable(element) ==
    <<element.tag, element.attr>> \in RESOURCE_ATTRS /\ element.value # <<>>

ElementRaises(element) ==
    /\ Rewritable(element)
    /\ IF element.attr = "srcset"
       THEN \E i \in 1..Len(SrcsetCandidates(element.value)) :
                urljoin_raises(SrcsetCandidates(element.value)[i][1])
       ELSE urljoin_raises(element.value)

RewriteElement(element, base_url) ==
    IF ~Rewritable(element) THEN element
    ELSE IF element.attr = "srcset"
    THEN [element EXCEPT !.value = _rewrite_srcset(@, base_url)]
    ELSE LET absolute == urljoin(base_url, element.value)
         IN  IF element.tag = "a" /\ element.attr = "href"
                /\ _should_proxy_download(absolute)
             THEN [element EXCEPT !.value = RESOURCE_PROXY_TXT \o quote(absolute)]
             ELSE [element EXCEPT !.value = absolute]

Document(url, parses, head, bases, elements) ==
    [url |-> url, parses |-> parses, head |-> head, bases |-> bases,
     elements |-> elements]

\* The resolved URL (resp.url) of the pages served.
PAGE_URL == <<"h","t","t","p",":","/","/","h","/","d","/","p">>

\* an empty body
NoDocument == Document(PAGE_URL, TRUE, FALSE, <<>>, <<>>)

_ensure_base_tag(doc, base_url) ==
    IF ~doc.head THEN doc
    ELSE IF doc.bases = <<>> THEN [doc EXCEPT !.bases = <<base_url>>]
    ELSE [doc EXCEPT !.bases[1] = base_url]

\* _rewrite_html: None when the parse fails, an exception when a later step
\* fails, or the rewritten document
_rewrite_html(base_url, doc) ==
    IF ~doc.parses THEN [outcome |-> "none", doc |-> doc]
    ELSE IF \E i \in 1..Len(doc.elements) : ElementRaises(doc.elements[i])
    THEN [outcome |-> "raises", doc |-> doc]
    ELSE LET based == _ensure_base_tag(doc, base_url)
         IN  [outcome |-> "rewritten",
              doc |-> [based EXCEPT !.elements =
                          [i \in 1..Len(@) |-> RewriteElement(@[i], base_url)]]]

\* One outbound HTTP exchange: a transport failure before the response's headers
\* arrive (connect, TLS, timeout: requests.RequestException), a response with a
\* status and headers, or such a response whose body then fails to arrive.
TransportFailure == [failed |-> TRUE, body_failed |-> FALSE, status |-> 0, html |-> FALSE,
                     headers |-> [xfo |-> <<>>, csp |-> <<>>], doc |-> NoDocument]

Upstream(status, html, headers) ==
    [failed |-> FALSE, body_failed |-> FALSE, status |-> status, html |-> html,
     headers |-> headers, doc |-> NoDocument]

BodyFailure ==
    [failed |-> FALSE, body_failed |-> TRUE, status |-> 200, html |-> FALSE,
     headers |-> [xfo |-> <<>>, csp |-> <<>>], doc |-> NoDocument]

\* _fetch_headers falling back to GET only when HEAD is not supported (405, 501)
_fetch_headers_unsupported_only(url, head, get) ==
    IF head.failed
    THEN [requests |-> << [method |-> "HEAD", url |-> url] >>, raised |-> TRUE, resp |-> head]
    ELSE IF head.status \in {405, 501}
    THEN [requests |-> << [method |-> "HEAD", url |-> url], [method |-> "GET", url |-> url] >>,
          raised |-> get.failed, resp |-> get]
    ELSE [requests |-> << [method |-> "HEAD", url |-> url] >>, raised |-> FALSE, resp |-> head]

\* _fetch_headers: the exchanges made and the response kept, given what the origin
\* answers to HEAD and to GET; a transport failure propagates
_fetch_headers(url, head, get) ==
    IF head.failed
    THEN [requests |-> << [method |-> "HEAD", url |-> url] >>, raised |-> TRUE, resp |-> head]
    ELSE IF head.status \in {405, 501} \/ head.status >= 400
    THEN [requests |-> << [method |-> "HEAD", url |-> url], [method |-> "GET", url |-> url] >>,
          raised |-> get.failed, resp |-> get]
    ELSE [requests |-> << [method |-> "HEAD", url |-> url] >>, raised |-> FALSE, resp |-> head]

(***************************************************************************)
(* What the clients send and what the origins answer.                      *)
(***************************************************************************)
\* The 'values' objects submitted: field name -> JSON value.
Payloads ==
    { [k \in {"label", "note"} |->
          IF k = "label" THEN PyList(<< <<" "," ","a"," ">>, <<>>, <<"b">> >>)
          ELSE PyStr(<<" ","n">>)],
      [k \in {"label", "extra"} |->
          IF k = "label" THEN PyInt(<<"5">>) ELSE PyStr(<<"e">>)],
      [k \in {"note"} |-> PyNone] }

\* The JSON bodies POSTed: 'values' absent, a mapping, or something else (a list);
\* 'annotator' absent or a string.
Submission(values_type, values, has_annotator, annotator) ==
    [values_type |-> values_type, values |-> values,
     has_annotator |-> has_annotator, annotator |-> annotator]

NoSubmission == Submission("absent", EmptyDict, FALSE, <<>>)

Submissions ==
    {NoSubmission, Submission("other", EmptyDict, FALSE, <<>>)}
    \cup {Submission("dict", v, FALSE, <<>>) : v \in Payloads}
    \cup {Submission("dict", [k \in {"label"} |-> PyStr(<<"c">>)], TRUE,
                     <<" ","b","o","b"," ">>)}

XFO_SAMEORIGIN == <<"S","A","M","E","O","R","I","G","I","N">>

CSP_FA_SELF == <<"f","r","a","m","e","-","a","n","c","e","s","t","o","r","s"," ","'","s","e","l","f","'">>

NoHeaders == [xfo |-> <<>>, csp |-> <<>>]

\* What an origin answers to the one GET of a page proxy or of a resource proxy.
\* Other texts of the pages served below.
OLD_BASE == <<"h","t","t","p",":","/","/","o","l","d","/">>

OLDER_BASE == <<"h","t","t","p",":","/","/","o","l","d","e","r","/">>

\* One element for each case of the rewriting loop: anchors to PDFs written
\* relatively, from the root in capitals and in full with a query; anchors to
\* other things; a PDF as an image; a srcset; an empty attribute; an attribute
\* outside the table; a URL that urljoin refuses.
PageElements ==
    {Element("a", "href", <<"a",".","p","d","f">>),
     Element("a", "href", <<"/","B",".","P","D","F">>),
     Element("a", "href", <<"h","t","t","p",":","/","/","o","/","c",".","p","d","f","?","q","=","1">>),
     Element("a", "href", <<"i",".","p","n","g">>),
     Element("a", "href", <<"z",".","p","d","f","x">>),
     Element("a", "href", <<"#","f">>),
     Element("img", "src", <<"a",".","p","d","f">>),
     Element("img", "srcset", <<"i",".","p","n","g"," ","2","x",","," ","/","j",".","p","n","g">>),
     Element("form", "action", <<>>),
     Element("a", "title", <<"a",".","p","d","f">>),
     Element("div", "href", <<"a",".","p","d","f">>),
     Element("a", "href", <<"h","t","t","p",":","/","/","[","b","a","d">>)}

\* the shapes of the head: none, one without a base, one or two bases
PageHeads ==
    {[head |-> FALSE, bases |-> <<>>], [head |-> TRUE, bases |-> <<>>],
     [head |-> TRUE, bases |-> <<OLD_BASE>>],
     [head |-> TRUE, bases |-> <<OLD_BASE, OLDER_BASE>>]}

Documents ==
    {Document(PAGE_URL, TRUE, TRUE, <<>>, <<e>>) : e \in PageElements}
    \cup {Document(PAGE_URL, TRUE, h.head, h.bases,
                   <<Element("a", "href", <<"a",".","p","d","f">>), Element("img", "src", <<"a",".","p","d","f">>)>>) :
             h \in PageHeads}
    \cup {Document(PAGE_URL, FALSE, FALSE, <<>>, <<Element("a", "href", <<"a",".","p","d","f">>)>>)}

Page(html, doc) == [Upstream(200, html, NoHeaders) EXCEPT !.doc = doc]

Origins ==
    {TransportFailure, BodyFailure,
     Upstream(200, TRUE, NoHeaders), Upstream(404, FALSE, NoHeaders),
     Page(FALSE, Document(PAGE_URL, TRUE, TRUE, <<>>,
                          <<Element("a", "href", <<"a",".","p","d","f">>)>>))}

\* what the origin of an entry's URL answers
PageOrigins == Origins \cup {Page(TRUE, doc) : doc \in Documents}

\* resp.url or target_url (line 92)
ResolvedUrl(origin, target_url) ==
    IF origin.doc.url # <<>> THEN origin.doc.url ELSE target_url

\* The X-Frame-Options values origins send: none, 'DENY', ' SameOrigin , x', 'x,deny'.
XFOValues ==
    {<<>>,
     <<"D","E","N","Y">>,
     <<" ","S","a","m","e","O","r","i","g","i","n"," ",",", " ","x">>,
     <<"x",",","d","e","n","y">>}

\* The Content-Security-Policy values origins send:
\*   none; 'src x'; "frame-ancestors 'none'"; "frame-ancestors 'self' 'NONE'";
\*   "src x; Frame-Ancestors y 'SELF' ;frame-ancestors 'none'"; 'frame-ancestors y';
\*   "frame-ancestors-x 'none'"
CSPValues ==
    {<<>>,
     <<"s","r","c"," ","x">>,
     FA_TXT \o <<" ">> \o QNONE_TXT,
     CSP_FA_SELF \o <<" ","'","N","O","N","E","'">>,
     <<"s","r","c"," ","x",";"," ","F","r","a","m","e","-","A","n","c","e","s","t","o","r","s",
       " ","y"," ","'","S","E","L","F","'"," ",";">> \o FA_TXT \o <<" ">> \o QNONE_TXT,
     FA_TXT \o <<" ","y">>,
     FA_TXT \o <<"-","x"," ">> \o QNONE_TXT}

\* What an origin answers to the HEAD of a header probe, and to the GET that follows
\* a refused HEAD.
HeadAnswers ==
    {TransportFailure, Upstream(405, FALSE, NoHeaders), Upstream(503, FALSE, NoHeaders)}
    \cup {Upstream(200, TRUE, [xfo |-> x, csp |-> c]) : x \in XFOValues, c \in CSPValues}

GetAnswers ==
    {TransportFailure,
     Upstream(200, TRUE, [xfo |-> <<>>, csp |-> CSP_FA_SELF]),
     Upstream(200, TRUE, [xfo |-> XFO_SAMEORIGIN, csp |-> CSP_FA_SELF]),
     Upstream(404, FALSE, NoHeaders)}

\* The 'url' parameter of a resource request: absent (or empty), or a URL with
\* the scheme urlparse finds in it.
ResourceTargets ==
    {[url |-> <<>>, scheme |-> ""],
     [url |-> <<"f","0">>, scheme |-> "ftp"],
     [url |-> <<"r","0">>, scheme |-> "http"],
     [url |-> <<"r","1">>, scheme |-> "https"]}

\* _is_allowed_url
_is_allowed_url(target) == target.scheme \in {"http", "https"}

\* The ids a client asks for: every loaded id and the first id past them.
RequestIds == 0..Len(data_store.entries)

NoBody == [kind |-> "none"]

\* A fetching request: its 'url' parameter (<<>> when it has none) together with
\* what the origin answered to the fetches made for it.
Exchange(target, first, second) ==
    [kind |-> "exchange", target |-> target, first |-> first, second |-> second]

Request(op, entry_id, body) == [op |-> op, id |-> entry_id, body |-> body]

(***************************************************************************)
(* The router, one request at a time (create_app).                         *)
(***************************************************************************)
\* annotation() passing the annotator as submitted (no strip)
AnnotatorName_raw(body) == IF body.has_annotator THEN body.annotator ELSE <<>>

\* annotation(), lines 65-69: the annotator name passed to the store
AnnotatorName(body) == IF body.has_annotator THEN Strip(body.annotator) ELSE <<>>

\* annotation() with save_annotation testing visibility after it has stored and
\* persisted the record
PostAnnotation_StoreFirst(cfg, store, file, entry_id, body) ==
    IF body.values_type = "absent"
    THEN [response |-> [status |-> 400, kind |-> "error"], store |-> store, file |-> file]
    ELSE IF get_entry_raises(store, entry_id)
    THEN [response |-> [status |-> 404, kind |-> "error"], store |-> store, file |-> file]
    ELSE IF body.values_type # "dict"
    THEN [response |-> [status |-> 500, kind |-> "error"], store |-> store, file |-> file]
    ELSE LET prepared == Prepared(cfg, body.values)
             saved == StoreRecord(cfg, store, entry_id, prepared, AnnotatorName(body))
         IN  IF ~_is_entry_visible(store, entry_id)
             THEN [response |-> [status |-> 404, kind |-> "error"],
                   store |-> saved, file |-> _persist_annotations(cfg, saved)]
             ELSE [response |-> [status |-> 200, kind |-> "annotation",
                                 values |-> prepared, annotator |-> AnnotatorName(body)],
                   store |-> saved,
                   file |-> _persist_annotations(cfg, saved)]

\* annotation() with _persist_annotations opening the output file for append
PostAnnotation_Append(cfg, store, file, entry_id, body) ==
    IF body.values_type = "absent"
    THEN [response |-> [status |-> 400, kind |-> "error"], store |-> store, file |-> file]
    ELSE IF get_entry_raises(store, entry_id) \/ ~_is_entry_visible(store, entry_id)
    THEN [response |-> [status |-> 404, kind |-> "error"], store |-> store, file |-> file]
    ELSE IF body.values_type # "dict"
    THEN [response |-> [status |-> 500, kind |-> "error"], store |-> store, file |-> file]
    ELSE LET prepared == Prepared(cfg, body.values)
             saved == StoreRecord(cfg, store, entry_id, prepared, AnnotatorName(body))
             written == _persist_annotations(cfg, saved)
         IN  [response |-> [status |-> 200, kind |-> "annotation",
                            values |-> prepared, annotator |-> AnnotatorName(body)],
              store |-> saved,
              file |-> [written EXCEPT !.rows = file.rows \o @]]

\* annotation(), POST: the response, the store and the output file it leaves.
\* save_annotation raises KeyError before it reads the payload, and reads the
\* payload (AttributeError unless it is a mapping: a 500) before it stores.
PostAnnotation(cfg, store, file, entry_id, body) ==
    IF body.values_type = "absent"
    THEN [response |-> [status |-> 400, kind |-> "error"], store |-> store, file |-> file]
    ELSE IF get_entry_raises(store, entry_id) \/ ~_is_entry_visible(store, entry_id)
    THEN [response |-> [status |-> 404, kind |-> "error"], store |-> store, file |-> file]
    ELSE IF body.values_type # "dict"
    THEN [response |-> [status |-> 500, kind |-> "error"], store |-> store, file |-> file]
    ELSE LET prepared == Prepared(cfg, body.values)
             saved == StoreRecord(cfg, store, entry_id, prepared, AnnotatorName(body))
         IN  [response |-> [status |-> 200, kind |-> "annotation",
                            values |-> prepared, annotator |-> AnnotatorName(body)],
              store |-> saved,
              file |-> _persist_annotations(cfg, saved)]

\* annotation(), GET
GetAnnotation(store, entry_id) ==
    [status |-> 200, kind |-> "annotation",
     values |-> Get(store.annotations, entry_id, EmptyDict),
     annotator |-> Get(store.annotators, entry_id, <<>>)]

\* POST /api/annotation/<entry_id>
annotation_post ==
    \E entry_id \in RequestIds, body \in Submissions :
        LET done == PostAnnotation(config, data_store, annotation_output, entry_id, body)
        IN  /\ request' = Request("annotation_post", entry_id, body)
            /\ response' = done.response
            /\ data_store' = done.store
            /\ annotation_output' = done.file
            /\ outbound' = <<>>
            /\ UNCHANGED <<config_file, playwright, config, data_file, workers, handles>>

\* GET /api/annotation/<entry_id>
annotation_get ==
    \E entry_id \in RequestIds :
        /\ request' = Request("annotation_get", entry_id, NoBody)
        /\ response' = GetAnnotation(data_store, entry_id)
        /\ outbound' = <<>>
        /\ UNCHANGED <<config_file, playwright, config, data_file, data_store, annotation_output, workers, handles>>

\* GET /api/state
api_state ==
    /\ request' = Request("api_state", 0, NoBody)
    /\ response' = [status |-> 200, kind |-> "state",
                    entries |-> formatted_entries(data_store),
                    annotations |-> annotations_for_client(data_store),
                    annotators |-> annotators_for_client(data_store)]
    /\ outbound' = <<>>
    /\ UNCHANGED <<config_file, playwright, config, data_file, data_store, annotation_output, workers, handles>>

\* proxy(): the response and the fetches made, given the origin's answer.
\* requests.get reads the whole body before it returns (stream is off), so a body
\* that fails to arrive raises inside the try block.
Proxy(store, entry_id, origin) ==
    IF get_entry_raises(store, entry_id)
    THEN [response |-> [status |-> 404, kind |-> "error"], requests |-> <<>>]
    ELSE LET fetched == << [method |-> "GET", url |-> store.entries[entry_id + 1].url] >>
         IN  IF origin.failed \/ origin.body_failed
             THEN [response |-> [status |-> 502, kind |-> "error"], requests |-> fetched]
             ELSE IF ~origin.html
             THEN [response |-> [status |-> origin.status, kind |-> "proxied",
                                 html |-> origin.html, body |-> origin.doc],
                   requests |-> fetched]
             ELSE LET target_url == store.entries[entry_id + 1].url
                      rewritten == _rewrite_html(ResolvedUrl(origin, target_url),
                                                 origin.doc)
                  IN  IF rewritten.outcome = "raises"
                      THEN [response |-> [status |-> 500, kind |-> "unhandled"],
                            requests |-> fetched]
                      ELSE [response |-> [status |-> origin.status, kind |-> "proxied",
                                          html |-> origin.html,
                                          body |-> IF rewritten.outcome = "none"
                                                   THEN origin.doc ELSE rewritten.doc],
                            requests |-> fetched]

\* GET /api/proxy/<entry_id>
proxy ==
    \E entry_id \in RequestIds, origin \in PageOrigins :
        LET done == Proxy(data_store, entry_id, origin)
        IN  /\ request' = Request("proxy", entry_id, Exchange(<<>>, origin, origin))
            /\ response' = done.response
            /\ outbound' = done.requests
            /\ UNCHANGED <<config_file, playwright, config, data_file, data_store, annotation_output, workers, handles>>

\* frame_check(): the response and the fetches made, given the origin's answers
FrameCheck(store, entry_id, head, get) ==
    IF get_entry_raises(store, entry_id)
    THEN [response |-> [status |-> 404, kind |-> "error"], requests |-> <<>>]
    ELSE LET probe == _fetch_headers(store.entries[entry_id + 1].url, head, get)
             verdict == _frame_blocked(probe.resp.headers)
         IN  IF probe.raised
             THEN [response |-> [status |-> 502, kind |-> "error"],
                   requests |-> probe.requests]
             ELSE [response |-> [status |-> 200, kind |-> "frame",
                                 blocked |-> verdict.blocked, reason |-> verdict.reason],
                   requests |-> probe.requests]

\* GET /api/frame-check/<entry_id>
frame_check ==
    \E entry_id \in RequestIds, head \in HeadAnswers :
      \E get \in (IF ~head.failed /\ head.status >= 400 THEN GetAnswers ELSE {head}) :
        LET done == FrameCheck(data_store, entry_id, head, get)
        IN  /\ request' = Request("frame_check", entry_id, Exchange(<<>>, head, get))
            /\ response' = done.response
            /\ outbound' = done.requests
            /\ UNCHANGED <<config_file, playwright, config, data_file, data_store, annotation_output, workers, handles>>

\* proxy_resource(): requests.get(stream=True) returns once the headers are in;
\* the body is read by resp.content after the try block, where a failure is not
\* caught and leaves the handler as an unhandled exception
ProxyResource(target, origin) ==
    IF target.url = <<>>
    THEN [response |-> [status |-> 400, kind |-> "error"], requests |-> <<>>]
    ELSE IF ~_is_allowed_url(target)
    THEN [response |-> [status |-> 400, kind |-> "error"], requests |-> <<>>]
    ELSE LET fetched == << [method |-> "GET", url |-> target.url] >>
         IN  IF origin.failed
             THEN [response |-> [status |-> 502, kind |-> "error"], requests |-> fetched]
             ELSE IF origin.body_failed
             THEN [response |-> [status |-> 500, kind |-> "unhandled"], requests |-> fetched]
             ELSE [response |-> [status |-> origin.status, kind |-> "proxied",
                                 html |-> origin.html, body |-> origin.doc],
                   requests |-> fetched]

\* GET /api/proxy/resource?url=...
proxy_resource ==
    \E target \in ResourceTargets, origin \in Origins :
        LET done == ProxyResource(target, origin)
        IN  /\ request' = Request("proxy_resource", 0, Exchange(target.url, origin, origin))
            /\ response' = done.response
            /\ outbound' = done.requests
            /\ UNCHANGED <<config_file, playwright, config, data_file, data_store, annotation_output, workers, handles>>

\* AppState.refresh, with the configuration file and the source CSV as they were
refresh ==
    /\ request' = Request("refresh", 0, NoBody)
    /\ config' = config_file
    /\ IF _load_entries_raises(config_file, data_file)
       THEN /\ response' = [status |-> 0, kind |-> "raised"]
            /\ data_store' = data_store
       ELSE /\ response' = [status |-> 0, kind |-> "none"]
            /\ data_store' = AnnotationDataStore(config_file, data_file,
                                                 annotation_output)
    /\ outbound' = <<>>
    /\ UNCHANGED <<config_file, playwright, data_file, annotation_output, workers, handles>>

\* The files on disk are edited between reloads: another valid configuration is
\* written, or the data file is replaced, emptied, removed or loses a URL.
DiskConfigs == {sc.cfg : sc \in Scenarios}

MissingFile == [header |-> <<>>, rows |-> <<>>]

DiskDataFiles ==
    {DataFile(sc.header, n) : sc \in Scenarios, n \in 0..MaxRows}
    \cup {MissingFile}
    \cup {[DataFile(sc.header, 1) EXCEPT !.rows[1].url = <<>>] : sc \in Scenarios}

edit_config ==
    /\ \E cfg \in DiskConfigs : cfg # config_file /\ config_file' = cfg
    /\ UNCHANGED <<playwright, config, data_file, annotation_output, data_store,
                   request, response, outbound, workers, handles>>

edit_data ==
    /\ \E data \in DiskDataFiles : data # data_file /\ data_file' = data
    /\ UNCHANGED <<config_file, playwright, config, annotation_output, data_store,
                   request, response, outbound, workers, handles>>

(***************************************************************************)
(* Start-up (AppState.__init__).                                           *)
(***************************************************************************)
\* An output file left by an earlier run of the same configuration over one more
\* row, in which the first and the last entry were annotated.
PriorOutput(cfg, header, n) ==
    LET earlier == AnnotationDataStore(cfg, DataFile(header, n + 1), NoFile)
        old == Prepared(cfg, [k \in {"label"} |-> PyStr(<<"o","l","d">>)])
        first == StoreRecord(cfg, earlier, 0, old, <<"c","a","r","o","l">>)
        last == StoreRecord(cfg, first, n, old, <<"c","a","r","o","l">>)
    IN  _persist_annotations(cfg, last)

\* The threads that talk to the PlaywrightWorker: those of the JS bridge,
\* which go through call(), and the main thread, which calls stop().
BridgeThreads == {"js1", "js2"}

Callers == BridgeThreads \cup {"main"}

QUIT == "__quit__"

\* a queue item (command, args, response): the response queue is the one
\* the caller made for its n-th call
Command(command, caller, n) == [command |-> command, caller |-> caller, n |-> n]

NoCommand == Command("", "", 0)

\* PlaywrightWorker.__init__ and start(): the thread is at the top of run(),
\* the events are clear, the queue is empty.  enqueued, handled and put
\* record what was put on the queue, what run() took from it and the
\* response.put calls, in order.
PlaywrightInit ==
    [thread |-> "launching", ready |-> FALSE, stopped |-> FALSE,
     queue |-> <<>>, current |-> NoCommand,
     pc |-> [c \in Callers |-> "idle"],
     calls |-> [c \in Callers |-> 0],
     enqueued |-> <<>>, handled |-> <<>>, put |-> <<>>]

IdleWorker == [pc |-> "idle", id |-> 0, body |-> NoSubmission, next |-> 0]

ClosedHandle == [open |-> FALSE, rows |-> <<>>, pos |-> 0]

Init ==
    \E sc \in Scenarios, n \in 1..MaxRows, prior \in BOOLEAN :
        /\ config = sc.cfg
        /\ data_file = DataFile(sc.header, n)
        /\ annotation_output = IF prior THEN PriorOutput(sc.cfg, sc.header, n) ELSE NoFile
        /\ data_store = AnnotationDataStore(sc.cfg, DataFile(sc.header, n),
                            IF prior THEN PriorOutput(sc.cfg, sc.header, n) ELSE NoFile)
        /\ request = Request("start", 0, NoBody)
        /\ response = [status |-> 0, kind |-> "none"]
        /\ outbound = <<>>
        /\ workers = [t \in 1..NumWorkers |-> IdleWorker]
        /\ handles = [t \in 1..NumWorkers |-> ClosedHandle]
        /\ config_file = sc.cfg
        /\ playwright = PlaywrightInit

\* The output files a start-up may find beside those of an earlier run: one written
\* before the annotation fields and the annotator column were configured, and one
\* whose row was cut short after the annotator cell.
FoundFiles(cfg, header, n) ==
    {NoFile,
     PriorOutput(cfg, header, n),
     [exists |-> TRUE, header |-> <<ENTRY_ID_COLUMN, cfg.url_column>>,
      rows |-> << << <<"0">>, <<"u","0">> >> >>],
     [exists |-> TRUE,
      header |-> <<ENTRY_ID_COLUMN>>
                    \o (IF cfg.annotator_column # None THEN <<cfg.annotator_column>>
                        ELSE <<>>)
                    \o <<cfg.annotation_fields[1].name>>,
      rows |-> << << <<" ","0"," ">> >>
                    \o (IF cfg.annotator_column # None THEN << <<"c","a","r","o","l">> >>
                        ELSE <<>>) >>]}

\* Start-up with any of these files on disk.
InitLoad ==
    \E sc \in Scenarios, n \in 1..MaxRows :
      \E found \in FoundFiles(sc.cfg, sc.header, n) :
        /\ config = sc.cfg
        /\ data_file = DataFile(sc.header, n)
        /\ annotation_output = found
        /\ data_store = AnnotationDataStore(sc.cfg, DataFile(sc.header, n), found)
        /\ request = Request("start", 0, NoBody)
        /\ response = [status |-> 0, kind |-> "none"]
        /\ outbound = <<>>
        /\ workers = [t \in 1..NumWorkers |-> IdleWorker]
        /\ handles = [t \in 1..NumWorkers |-> ClosedHandle]
        /\ config_file = sc.cfg
        /\ playwright = PlaywrightInit

\* The annotation endpoints and reloads, one request at a time.
Next ==
    \/ annotation_get
    \/ annotation_post
    \/ api_state
    \/ refresh

Spec == Init /\ [][Next]_vars

NextReload ==
    \/ edit_config
    \/ edit_data
    \/ refresh

SpecReload == Init /\ [][NextReload]_vars

SpecLoad == InitLoad /\ [][Next]_vars

\* The fetching endpoints, one request at a time; they read the store's entries
\* and change nothing.
NextFetch ==
    \/ proxy
    \/ proxy_resource
    \/ frame_check

SpecFetch == Init /\ [][NextFetch]_vars

(***************************************************************************)
(* The threaded router: app.run serves each request on its own thread, and  *)
(* neither annotation() nor the store takes a lock.  A save is then the     *)
(* steps below, which the threads interleave freely.  A worker's handle on  *)
(* the output file buffers what it writes (open(..., "w")): the buffer      *)
(* reaches the file when it fills and when the file is closed, at the       *)
(* handle's own offset.  Offsets are counted in lines, line 0 the header.   *)
(***************************************************************************)
\* The bodies POSTed to the threaded router.
ConcSubmissions ==
    {Submission("dict", [k \in {"note"} |-> PyNone], FALSE, <<>>),
     Submission("dict", [k \in {"label"} |-> PyStr(<<"c">>)], TRUE,
                <<" ","b","o","b"," ">>)}

\* annotation() up to save_annotation line 177: the checks, then
\* self.annotations[entry_id] = prepared
save_begin(t) ==
    /\ workers[t].pc = "idle"
    /\ \E entry_id \in RequestIds, body \in ConcSubmissions :
        IF get_entry_raises(data_store, entry_id) \/ ~_is_entry_visible(data_store, entry_id)
        THEN /\ request' = Request("annotation_post", entry_id, body)
             /\ response' = [status |-> 404, kind |-> "error"]
             /\ UNCHANGED <<data_store, workers>>
        ELSE /\ data_store' = [data_store EXCEPT
                    !.annotations = Put(@, entry_id, Prepared(config, body.values))]
             /\ workers' = [workers EXCEPT
                    ![t] = [pc |-> "stored", id |-> entry_id, body |-> body, next |-> 0]]
             /\ UNCHANGED <<request, response>>
    /\ UNCHANGED <<config_file, playwright, config, data_file, annotation_output, outbound, handles>>

\* save_annotation lines 178-179: self.annotators[entry_id] = annotator or ""
save_assign(t) ==
    /\ workers[t].pc = "stored"
    /\ data_store' = [data_store EXCEPT
            !.annotators = IF config.annotator_column # None
                           THEN Put(@, workers[t].id, AnnotatorName(workers[t].body))
                           ELSE @]
    /\ workers' = [workers EXCEPT ![t].pc = "assigned"]
    /\ UNCHANGED <<config_file, playwright, config, data_file, annotation_output, request, response, outbound,
                   handles>>

\* _persist_annotations lines 196-198: open(..., "w") truncates the file; the
\* header goes to the handle's buffer
persist_open(t) ==
    /\ workers[t].pc = "assigned"
    /\ annotation_output' = [exists |-> TRUE, header |-> <<>>, rows |-> <<>>]
    /\ handles' = [handles EXCEPT ![t] = [open |-> TRUE, rows |-> <<>>, pos |-> 0]]
    /\ workers' = [workers EXCEPT ![t].pc = "writing", ![t].next = 1]
    /\ UNCHANGED <<config_file, playwright, config, data_file, data_store, request, response, outbound>>

\* _persist_annotations lines 199-206, one entry: its row is formatted from the
\* store as it is now and goes to the buffer
persist_row(t) ==
    /\ workers[t].pc = "writing"
    /\ workers[t].next <= Len(data_store.entries)
    /\ handles' = [handles EXCEPT ![t].rows =
            Append(@, OutputRow(config, data_store, data_store.entries[workers[t].next]))]
    /\ workers' = [workers EXCEPT ![t].next = @ + 1]
    /\ UNCHANGED <<config_file, playwright, config, data_file, data_store, annotation_output, request, response,
                   outbound>>

\* The file after a handle writes its buffered lines pos+1.. at its offset: lines
\* another handle's truncation removed before that offset are left as holes
Flushed(cfg, store, file, handle) ==
    LET last == Len(handle.rows)
    IN  [exists |-> TRUE,
         header |-> IF handle.pos = 0 THEN OutputHeader(cfg, store) ELSE file.header,
         rows |-> [i \in 1..Max(Len(file.rows), last) |->
                     IF i >= handle.pos /\ i <= last THEN handle.rows[i]
                     ELSE IF i <= Len(file.rows) THEN file.rows[i]
                     ELSE <<>>]]

\* The buffer fills and is written out while the file is still open.
persist_flush(t) ==
    /\ workers[t].pc = "writing"
    /\ handles[t].pos < 1 + Len(handles[t].rows)
    /\ annotation_output' = Flushed(config, data_store, annotation_output, handles[t])
    /\ handles' = [handles EXCEPT ![t].pos = 1 + Len(handles[t].rows)]
    /\ UNCHANGED <<config_file, playwright, config, data_file, data_store, workers, request, response, outbound>>

\* The with block ends: the rest of the buffer is written, the file closed, and
\* annotation() answers with the record it prepared
persist_close(t) ==
    /\ workers[t].pc = "writing"
    /\ workers[t].next > Len(data_store.entries)
    /\ annotation_output' =
            IF handles[t].pos < 1 + Len(handles[t].rows)
            THEN Flushed(config, data_store, annotation_output, handles[t])
            ELSE annotation_output
    /\ handles' = [handles EXCEPT ![t] = ClosedHandle]
    /\ workers' = [workers EXCEPT ![t] = IdleWorker]
    /\ request' = Request("annotation_post", workers[t].id, workers[t].body)
    /\ response' = [status |-> 200, kind |-> "annotation",
                    values |-> Prepared(config, workers[t].body.values),
                    annotator |-> AnnotatorName(workers[t].body)]
    /\ UNCHANGED <<config_file, playwright, config, data_file, data_store, outbound>>

\* The store is loaded from a dataset of MaxRows rows under an annotator allow-list,
\* with no output file yet.
InitConc ==
    /\ Init
    /\ ~annotation_output.exists
    /\ Len(data_file.rows) = MaxRows
    /\ config.annotator_filter # <<>>

NextConc ==
    \E t \in 1..NumWorkers :
        \/ save_begin(t)
        \/ save_assign(t)
        \/ persist_open(t)
        \/ persist_row(t)
        \/ persist_flush(t)
        \/ persist_close(t)

SpecConc == InitConc /\ [][NextConc]_vars

(***************************************************************************)
(* Properties.                                                             *)
(***************************************************************************)
\* The last request was a POST /api/annotation/<id> that save_annotation completed.
SaveSucceeded == request.op = "annotation_post" /\ response.status = 200

EntryIds == {data_store.entries[i].id : i \in 1..Len(data_store.entries)}

\* The ids _is_entry_visible accepts.
VisibilitySet == {id \in EntryIds : _is_entry_visible(data_store, id)}

FieldNames == Range(annotation_field_names(config))

\* C1: after a successful save, a store constructed from the same configuration,
\* the same source and the output file now on disk holds, for the saved id, exactly
\* the record the save returned.
C1_RoundTrip ==
    SaveSucceeded =>
        LET reloaded == AnnotationDataStore(config, data_file, annotation_output)
        IN  /\ request.id \in DOMAIN reloaded.annotations
            /\ reloaded.annotations[request.id] = response.values

\* The cell a reader of the output file finds under a column name, in the row
\* written at a position.
OutputCell(i, name) ==
    RowGet(annotation_output.header, annotation_output.rows[i], name, <<"?">>)

\* C2: after every successful save the output file holds exactly one row per loaded
\* entry, visible or not, in load order; row i carries entry i's current record
\* (the text of each field's value) and its current annotator assignment.
C2_FullRewrite ==
    SaveSucceeded =>
        /\ annotation_output.exists
        /\ Len(annotation_output.rows) = Len(data_store.entries)
        /\ \A i \in 1..Len(data_store.entries) :
            LET e == data_store.entries[i]
                Current(f) ==
                    IF e.id \in DOMAIN data_store.annotations
                       /\ f \in DOMAIN data_store.annotations[e.id]
                    THEN CellText(data_store.annotations[e.id][f])
                    ELSE Get(e.data, f, <<>>)
            IN  /\ e.data[config.url_column] = OutputCell(i, config.url_column)
                /\ \A f \in FieldNames : OutputCell(i, f) = Current(f)
                /\ config.annotator_column # None =>
                      OutputCell(i, config.annotator_column)
                          = Get(data_store.annotators, e.id, <<>>)

\* C2's case: a save went through while the store holds an entry outside the
\* visibility set, and an earlier output file with more rows had been on disk.
C2_Witness ==
    /\ SaveSucceeded
    /\ data_store.visible.filtered
    /\ VisibilitySet # EntryIds
    /\ \E id \in DOMAIN data_store.annotations : id \notin EntryIds

\* A POST that must fail for a client-input reason: unknown id, entry outside the
\* visibility set, or a body without 'values'.
ClientInputFailure(req, store) ==
    /\ req.op = "annotation_post"
    /\ \/ get_entry_raises(store, req.id)
       \/ ~_is_entry_visible(store, req.id)
       \/ req.body.values_type = "absent"

\* C3: a save that fails for a client-input reason answers 400 or 404 and leaves
\* the records, the annotator assignments and the output file as they were.
C3_FailedSaveNoMutation ==
    [][ClientInputFailure(request', data_store) =>
          /\ response'.status \in {400, 404}
          /\ data_store' = data_store
          /\ annotation_output' = annotation_output]_vars

\* C3's case: a save of an invisible entry was refused after an earlier save had
\* written the output file.
C3_Witness ==
    /\ request.op = "annotation_post"
    /\ response.status = 404
    /\ request.id \in EntryIds
    /\ request.id \notin VisibilitySet
    /\ request.body.values_type = "dict"
    /\ annotation_output.exists
    /\ 0 \in DOMAIN data_store.annotations

AllIdle == \A t \in 1..NumWorkers : workers[t].pc = "idle"

\* C4: saves handled by different worker threads are serialized: no two rewrites
\* of the output file are open at once, and once every save has returned the
\* output file is the serialization of the store.
C4_SavesSerialized ==
    /\ Cardinality({t \in 1..NumWorkers : handles[t].open}) <= 1
    /\ (AllIdle /\ SaveSucceeded) =>
          annotation_output = _persist_annotations(config, data_store)

\* C5: with an annotator filter, GET /api/annotation/<id> for a loaded entry outside
\* the visibility set answers not-found or denied.
C5_GetHidesInvisible ==
    ( /\ request.op = "annotation_get"
      /\ data_store.visible.filtered
      /\ request.id \in EntryIds
      /\ request.id \notin VisibilitySet )
    => response.status \in {403, 404}

\* C6: with a filter, formatted_entries, annotations_for_client and
\* annotators_for_client hold only ids of the visibility set (and /api/state
\* returns just those); without one they return every entry, record and
\* assignment.
C6_ProjectionsFiltered ==
    LET shown == formatted_entries(data_store)
    IN  /\ data_store.visible.filtered =>
            /\ \A k \in 1..Len(shown) : shown[k].id \in VisibilitySet
            /\ DOMAIN annotations_for_client(data_store) \subseteq VisibilitySet
            /\ DOMAIN annotators_for_client(data_store) \subseteq VisibilitySet
        /\ ~data_store.visible.filtered =>
            /\ shown = data_store.entries
            /\ annotations_for_client(data_store) = data_store.annotations
            /\ annotators_for_client(data_store) = data_store.annotators
        /\ request.op = "api_state" =>
            /\ response.entries = shown
            /\ response.annotations = annotations_for_client(data_store)
            /\ response.annotators = annotators_for_client(data_store)

\* C6's case: /api/state was served while an entry outside the visibility set had
\* a record and an annotator in the store.
C6_Witness ==
    /\ request.op = "api_state"
    /\ data_store.visible.filtered
    /\ \E id \in EntryIds \ VisibilitySet :
          /\ id \in DOMAIN data_store.annotations
          /\ id \in DOMAIN data_store.annotators
    /\ DOMAIN response.annotations # {}

\* C7: /api/proxy/<id> and /api/frame-check/<id> reject a loaded id outside the
\* visibility set, and make no outbound fetch for it.
C7_FetchRejectsInvisible ==
    ( /\ request.op \in {"proxy", "frame_check"}
      /\ request.id \in EntryIds
      /\ request.id \notin VisibilitySet )
    => /\ response.status \in {403, 404}
       /\ outbound = <<>>

\* C8: every endpoint that takes an id answers 404 when the id is not a loaded
\* entry's.
C8_UnknownIdNotFound ==
    ( /\ request.op \in {"annotation_get", "annotation_post", "proxy", "frame_check"}
      /\ request.id \notin EntryIds )
    => response.status = 404

\* C9: the loaded entries are the source rows in order, entry i (from 0) carrying
\* id i, in every state, whatever was saved, persisted, reloaded or projected.
C9_EntryIds ==
    /\ Len(data_store.entries) = Len(data_file.rows)
    /\ \A i \in 1..Len(data_store.entries) :
          /\ data_store.entries[i].id = i - 1
          /\ data_store.entries[i].data = data_file.rows[i]
    /\ request.op = "api_state" =>
          \A k \in 1..Len(response.entries) :
              /\ response.entries[k].data = data_file.rows[response.entries[k].id + 1]
              /\ \A j \in 1..(k - 1) : response.entries[j].id < response.entries[k].id

\* C9's case: the entries of a dataset of several rows, after a save.
C9_Witness ==
    /\ SaveSucceeded
    /\ Len(data_store.entries) >= 2
    /\ request.id = Len(data_store.entries) - 1

\* The value a field must hold after a save, from the submission alone.
Submitted(f) ==
    LET sub == request.body.values
        field == config.annotation_fields[
                    CHOOSE i \in 1..Len(config.annotation_fields) :
                        config.annotation_fields[i].name = f]
        sep == IF field.separator = <<>> THEN config.default_list_separator
               ELSE field.separator
        items == IF f \in DOMAIN sub THEN sub[f].l ELSE <<>>
        kept == SelectSeq(items, LAMBDA v : Strip(v) # <<>>)
    IN  IF f \notin DOMAIN sub \/ sub[f] = PyNone THEN PyStr(<<>>)
        ELSE IF sub[f].t = "list" THEN PyStr(Join(sep, [i \in 1..Len(kept) |-> Strip(kept[i])]))
        ELSE sub[f]

\* C10: after a successful save the record of the entry has exactly the configured
\* field names as keys, each value coming from this submission alone (the empty
\* string for a field absent or None), whatever the record held before.
C10_RecordReplaced ==
    SaveSucceeded =>
        /\ request.id \in DOMAIN data_store.annotations
        /\ DOMAIN data_store.annotations[request.id] = FieldNames
        /\ \A f \in FieldNames : data_store.annotations[request.id][f] = Submitted(f)

\* C10's case: a save that left a field empty on an entry whose source row had
\* seeded that field.
C10_Witness ==
    /\ SaveSucceeded
    /\ DOMAIN Prefilled(config, data_store.entries[request.id + 1].data) # {}
    /\ \E f \in DOMAIN Prefilled(config, data_store.entries[request.id + 1].data) :
          data_store.annotations[request.id][f] = PyStr(<<>>)

\* C11: in the output file a save leaves, the columns are the identity column, the
\* source columns, the annotation field names and then the annotator column if
\* configured, and every source column's cell is the source row's value verbatim,
\* also where an annotation field or the annotator column bears the column's name.
C11_OutputColumns ==
    SaveSucceeded =>
        /\ annotation_output.header =
              <<ENTRY_ID_COLUMN>> \o data_file.header \o annotation_field_names(config)
                  \o (IF config.annotator_column # None THEN <<config.annotator_column>>
                      ELSE <<>>)
        /\ \A i \in 1..Len(annotation_output.rows) :
              \A k \in 1..Len(data_file.header) :
                  annotation_output.rows[i][k + 1] = data_file.rows[i][data_file.header[k]]

\* The cell text the claim prescribes for a column of an output row: the cell, or
\* the empty string where the row has none.
CellOrEmpty(cells, name) ==
    IF HasColumn(annotation_output.header, name)
       /\ LastColumn(annotation_output.header, name) <= Len(cells)
    THEN cells[LastColumn(annotation_output.header, name)]
    ELSE <<>>

\* The store is as the constructor left it: nothing was saved since the load.
JustLoaded == request.op \in {"start", "refresh"}

\* C12: when the store is loaded with an output file that has an identity column
\* on disk, then for every row with a parseable identity the record of that id is
\* exactly the row's cell for each configured field (the empty string for a
\* missing cell), whatever the source seeded, and the annotator assignment is the
\* row's annotator cell.
C12_PersistedPrecedence ==
    ( /\ JustLoaded
      /\ annotation_output.exists
      /\ HasColumn(annotation_output.header, ENTRY_ID_COLUMN) )
    => \A i \in 1..Len(annotation_output.rows) :
          LET cells == annotation_output.rows[i]
              parsed == ParseInt(Strip(CellOrEmpty(cells, ENTRY_ID_COLUMN)))
          IN  parsed.ok =>
                /\ parsed.value \in DOMAIN data_store.annotations
                /\ data_store.annotations[parsed.value] =
                      [f \in FieldNames |-> PyStr(CellOrEmpty(cells, f))]
                /\ config.annotator_column # None =>
                      /\ parsed.value \in DOMAIN data_store.annotators
                      /\ data_store.annotators[parsed.value] =
                            CellOrEmpty(cells, config.annotator_column)

\* t is raw without its leading and trailing whitespace.
IsTrimOf(t, raw) ==
    \E a \in 0..Len(raw) : \E b \in a..Len(raw) :
        /\ t = SubSeq(raw, a + 1, b)
        /\ \A i \in 1..a : IsSpace(raw[i])
        /\ \A i \in (b + 1)..Len(raw) : IsSpace(raw[i])
        /\ t # <<>> => ~IsSpace(t[1]) /\ ~IsSpace(t[Len(t)])

\* C13: with an annotator column configured, a successful save leaves as the
\* entry's annotator assignment the submitted annotator without its surrounding
\* whitespace, or the empty string when none was submitted, whatever assignment
\* the entry had.
C13_AnnotatorAssigned ==
    (SaveSucceeded /\ config.annotator_column # None) =>
        /\ request.id \in DOMAIN data_store.annotators
        /\ IF request.body.has_annotator
           THEN IsTrimOf(data_store.annotators[request.id], request.body.annotator)
           ELSE data_store.annotators[request.id] = <<>>
        /\ response.annotator = data_store.annotators[request.id]

\* C13's case: an annotator submitted with surrounding whitespace was saved for an
\* entry whose source row had seeded another assignment.
C13_Witness ==
    /\ SaveSucceeded
    /\ config.annotator_column # None
    /\ request.body.has_annotator
    /\ IsSpace(request.body.annotator[1])
    /\ Strip(data_file.rows[request.id + 1][config.annotator_column])
          \notin {<<>>, data_store.annotators[request.id]}

\* C14: once a save has succeeded, the same request made again straight away
\* succeeds and leaves an output file identical to the one the first save left.
C14_SaveIdempotent ==
    [][(SaveSucceeded /\ request' = request) =>
          /\ response' = response
          /\ annotation_output' = annotation_output]_vars

\* C14's case: a save that changed the record of an entry other entries' rows sit
\* beside, after which the same save is made again.
C14_Witness ==
    /\ SaveSucceeded
    /\ Len(annotation_output.rows) >= 2
    /\ request.body.values_type = "dict"
    /\ DOMAIN request.body.values # {}
    /\ \E f \in FieldNames : data_store.annotations[request.id][f] # PyStr(<<>>)
    /\ PostAnnotation(config, data_store, annotation_output, request.id, request.body).store
          = data_store

\* Some token of the text (a stretch between delimiters, or between a delimiter
\* and an end of the text), trimmed and lower-cased, is one of the names.
SomeTokenIn(text, names) ==
    \E a \in 1..Len(text) : \E b \in a..Len(text) :
        /\ \A k \in a..b : text[k] \notin AnnotatorDelims
        /\ a = 1 \/ text[a - 1] \in AnnotatorDelims
        /\ b = Len(text) \/ text[b + 1] \in AnnotatorDelims
        /\ Lower(Strip(SubSeq(text, a, b))) \in names

\* C15: with an allow-list configured an entry is visible exactly when some token
\* of its annotator-column value, trimmed and lower-cased, is in the lower-cased
\* allow-list; with none configured every entry is visible.
C15_VisibilityTokens ==
    \A i \in 1..Len(data_store.entries) :
        LET e == data_store.entries[i]
            names == {Lower(config.annotator_filter[k]) :
                         k \in 1..Len(config.annotator_filter)}
        IN  _is_entry_visible(data_store, e.id)
              <=> IF config.annotator_filter = <<>> THEN TRUE
                  ELSE SomeTokenIn(e.data[config.annotator_column], names)

\* C15's case: under an allow-list, one entry is visible through one token among
\* several, written in another case than the allow-list's, and another entry with
\* an annotator is not visible.
C15_Witness ==
    /\ config.annotator_filter # <<>>
    /\ \E i \in 1..Len(data_store.entries) :
          LET text == data_store.entries[i].data[config.annotator_column]
          IN  /\ _is_entry_visible(data_store, data_store.entries[i].id)
              /\ \E k \in 1..Len(text) : text[k] \in AnnotatorDelims
              /\ \A k \in 1..Len(config.annotator_filter) :
                    ~SomeTokenIn(text, {config.annotator_filter[k]})
    /\ \E i \in 1..Len(data_store.entries) :
          /\ ~_is_entry_visible(data_store, data_store.entries[i].id)
          /\ data_store.entries[i].data[config.annotator_column] # <<>>
    /\ request.op = "refresh"

\* The list ['  a ', '', 'b'].
ExampleList == PyList(<< <<" "," ","a"," ">>, <<>>, <<"b">> >>)

\* C16: the record a save returns holds, for each configured field, the submitted
\* list's elements trimmed, the empty ones dropped, joined in order with the
\* field's own separator or else the default one; a scalar as submitted; and the
\* empty string for None or an absent field.  ['  a ', '', 'b'] gives 'a,b' under
\* the separator ',' and 'a;b' under the default ';'.
C16_ListNormalized ==
    SaveSucceeded =>
        /\ DOMAIN response.values = FieldNames
        /\ \A f \in FieldNames : response.values[f] = Submitted(f)
        /\ \A i \in 1..Len(config.annotation_fields) :
              LET field == config.annotation_fields[i]
              IN  Get(request.body.values, field.name, PyNone) = ExampleList =>
                      response.values[field.name] =
                          IF field.separator = <<",">> THEN PyStr(<<"a", ",", "b">>)
                          ELSE PyStr(<<"a", ";", "b">>)

\* C16's case: the example list was saved for a field that has its own separator,
\* together with a scalar for another field.
C16_Witness ==
    /\ SaveSucceeded
    /\ \E i \in 1..Len(config.annotation_fields) :
          /\ config.annotation_fields[i].separator = <<",">>
          /\ Get(request.body.values, config.annotation_fields[i].name, PyNone) = ExampleList
          /\ response.values[config.annotation_fields[i].name] = PyStr(<<"a", ",", "b">>)
    /\ \E f \in FieldNames : response.values[f] = PyStr(<<" ", "n">>)

\* A frame check was answered with a verdict.
FrameVerdict == request.op = "frame_check" /\ response.status = 200

\* The headers that verdict is about: those of the response the probe kept.
ProbedHeaders ==
    IF request.body.first.status >= 400 THEN request.body.second.headers
    ELSE request.body.first.headers

\* The text before the first comma, without surrounding whitespace, lower-cased.
FirstCommaToken(text) ==
    LET commas == {i \in 1..Len(text) : text[i] = ","}
        stop == IF commas = {} THEN Len(text) + 1
                ELSE CHOOSE i \in commas : \A j \in commas : i <= j
    IN  Lower(Strip(SubSeq(text, 1, stop - 1)))

\* X-Frame-Options decides: its first token is 'deny' or 'sameorigin'.
XfoDecisive ==
    /\ ProbedHeaders.xfo # <<>>
    /\ FirstCommaToken(ProbedHeaders.xfo) \in {DENY_TXT, SAMEORIGIN_TXT}

\* C17: when the first comma-separated token of X-Frame-Options, trimmed and
\* lower-cased, is 'deny' or 'sameorigin', the verdict is blocked with reason
\* 'xfo:<token>' whatever the Content-Security-Policy says; any other
\* X-Frame-Options leaves the verdict to the Content-Security-Policy alone.
C17_XfoBeforeCsp ==
    FrameVerdict =>
        IF XfoDecisive
        THEN /\ response.blocked
             /\ response.reason = XFO_TXT \o FirstCommaToken(ProbedHeaders.xfo)
        ELSE LET csp_only == _frame_blocked([xfo |-> <<>>, csp |-> ProbedHeaders.csp])
             IN  /\ response.blocked = csp_only.blocked
                 /\ response.reason = csp_only.reason

\* C17's case: a verdict for ' SameOrigin , x' sent together with a policy whose
\* frame-ancestors is 'none'.
C17_Witness ==
    /\ FrameVerdict
    /\ XfoDecisive
    /\ ProbedHeaders.xfo \notin {DENY_TXT, SAMEORIGIN_TXT}
    /\ FirstCommaToken(ProbedHeaders.xfo) = SAMEORIGIN_TXT
    /\ ProbedHeaders.csp = FA_TXT \o <<" ">> \o QNONE_TXT
    /\ response.reason = XFO_TXT \o SAMEORIGIN_TXT

\* The directives of a policy: its pieces between semicolons, trimmed, the empty
\* ones left out; each as its whitespace-separated words.
DirectiveWords(csp) ==
    LET chunks == SplitOn(csp, ";", <<>>)
        kept == SelectSeq(chunks, LAMBDA c : Strip(c) # <<>>)
    IN  [i \in 1..Len(kept) |-> SplitWhitespace(kept[i], <<>>)]

\* C18: when X-Frame-Options does not decide, the verdict is that of the first
\* directive whose name is 'frame-ancestors' in any case: 'none' among its tokens
\* gives csp:frame-ancestors-none, else 'self' gives csp:frame-ancestors-self, else
\* csp:frame-ancestors-other, all blocked; with no directive of that name the
\* verdict is not blocked, without a reason.
C18_FirstFrameAncestors ==
    (FrameVerdict /\ ~XfoDecisive) =>
        LET words == DirectiveWords(ProbedHeaders.csp)
            named == {i \in 1..Len(words) : Lower(words[i][1]) = FA_TXT}
        IN  IF named = {}
            THEN ~response.blocked /\ response.reason = <<>>
            ELSE LET first == CHOOSE i \in named : \A j \in named : i <= j
                     tokens == {Lower(words[first][k]) : k \in 2..Len(words[first])}
                 IN  /\ response.blocked
                     /\ response.reason =
                           IF QNONE_TXT \in tokens THEN CSP_NONE_TXT
                           ELSE IF QSELF_TXT \in tokens THEN CSP_SELF_TXT
                           ELSE CSP_OTHER_TXT

\* A request whose outbound fetch met a transport failure: on the way to the
\* response's headers, or while a body the handler reads was arriving.  (The header
\* probe reads no body.)
TransportFailed ==
    /\ request.op \in {"proxy", "proxy_resource", "frame_check"}
    /\ outbound # <<>>
    /\ IF request.op = "frame_check"
       THEN \/ request.body.first.failed
            \/ Len(outbound) = 2 /\ request.body.second.failed
       ELSE request.body.first.failed \/ request.body.first.body_failed

\* C19: every transport failure of a fetch made for /api/proxy/<id>,
\* /api/proxy/resource or /api/frame-check/<id>, be it before the response or while
\* its body is read, is answered with a 502 and never leaves the handler as an
\* exception.
C19_TransportFailure502 ==
    TransportFailed => response.status = 502 /\ response.kind = "error"

\* The origin answered the fetch the handler kept with a status outside 200..299.
OriginRefused ==
    /\ request.op \in {"proxy", "proxy_resource", "frame_check"}
    /\ outbound # <<>>
    /\ LET kept == IF Len(outbound) = 2 THEN request.body.second ELSE request.body.first
       IN  /\ ~kept.failed
           /\ ~kept.body_failed
           /\ kept.status \notin 200..299

\* C20: when the origin answers with a non-2xx status, the page proxy, the resource
\* proxy and the frame check answer with a 5xx status: never success, and never
\* the origin's 4xx.
C20_NonSuccessIsGateway ==
    OriginRefused => response.status \in 500..599

\* C22: a frame check's first outbound request is a HEAD; a second one is made
\* exactly when the HEAD was answered with a status of 400 or more, it is a GET of
\* the same URL, and there is no third.  The page proxy and the resource proxy make
\* exactly one outbound request, a GET, for a request they accept, and none
\* otherwise.
C22_ProbeOrder ==
    /\ (request.op = "frame_check" /\ request.id \in EntryIds) =>
          /\ Len(outbound) \in {1, 2}
          /\ outbound[1].method = "HEAD"
          /\ Len(outbound) = 2 <=>
                (~request.body.first.failed /\ request.body.first.status >= 400)
          /\ Len(outbound) = 2 =>
                outbound[2] = [method |-> "GET", url |-> outbound[1].url]
    /\ (request.op = "frame_check" /\ request.id \notin EntryIds) => outbound = <<>>
    /\ request.op = "proxy" =>
          /\ Len(outbound) = (IF request.id \in EntryIds THEN 1 ELSE 0)
          /\ \A i \in 1..Len(outbound) : outbound[i].method = "GET"
    /\ request.op = "proxy_resource" =>
          /\ Len(outbound) =
                (IF \E t \in ResourceTargets :
                        t.url = request.body.target /\ t.url # <<>> /\ _is_allowed_url(t)
                 THEN 1 ELSE 0)
          /\ \A i \in 1..Len(outbound) : outbound[i].method = "GET"

\* C22's case: a HEAD answered 503 was followed by the one GET, and that GET failed.
C22_Witness ==
    /\ request.op = "frame_check"
    /\ request.body.first.status = 503
    /\ Len(outbound) = 2
    /\ request.body.second.failed
    /\ response.status = 502

\* C23: no request other than a reload changes the loaded entries (their ids,
\* URLs, data and order), the source column names or the visibility set: not a
\* save, successful or refused, nor a projection.
C23_EntriesImmutable ==
    [][request'.op # "refresh" =>
          /\ data_store'.entries = data_store.entries
          /\ data_store'.csv_fieldnames = data_store.csv_fieldnames
          /\ data_store'.visible = data_store.visible]_vars

\* C23's case: under an allow-list, a visible entry was saved with an annotator
\* that is not on the list, and is still visible.
C23_Witness ==
    /\ SaveSucceeded
    /\ data_store.visible.filtered
    /\ request.body.has_annotator
    /\ ~SomeTokenIn(data_store.annotators[request.id],
                    {Lower(config.annotator_filter[k]) :
                        k \in 1..Len(config.annotator_filter)})
    /\ request.id \in VisibilitySet

\* A record holds a non-empty value.
HasValue(record) == \E f \in DOMAIN record : record[f] \notin {PyStr(<<>>), PyNone}

\* The ids the earlier run that left the output file had saved (PriorOutput).
SavedEarlier == IF annotation_output.exists THEN {0, Len(data_file.rows)} ELSE {}

\* C25: at start-up, also on top of the output file an earlier run wrote, an entry
\* has a record only if a non-empty value was seeded or persisted for it or it was
\* explicitly saved.
C25_LazyRecords ==
    request.op = "start" =>
        \A id \in (DOMAIN data_store.annotations) \cap EntryIds :
            HasValue(data_store.annotations[id]) \/ id \in SavedEarlier

\* C28: every key of the annotation records and of the annotator assignments is
\* the id of a loaded entry, and so is every key the client projections return.
C28_NoOrphanKeys ==
    /\ DOMAIN data_store.annotations \subseteq EntryIds
    /\ DOMAIN data_store.annotators \subseteq EntryIds
    /\ DOMAIN annotations_for_client(data_store) \subseteq EntryIds
    /\ DOMAIN annotators_for_client(data_store) \subseteq EntryIds


\* ---------------------------------------------------------------------
\* Saving while the output file cannot be written.
\* save_annotation assigns the record and the annotator (data_store.py
\* 177-179) and only then calls _persist_annotations (180), which opens
\* the output file with mode "w" and writes row by row.  An OSError is
\* caught neither there nor in the route.
\* ---------------------------------------------------------------------

\* The ways the write can end: the open itself fails (the file is left
\* alone), or the buffered rows cannot be flushed after the open with
\* mode "w" truncated the file (the file is left empty).
DiskFailures == {"open", "flush"}

_persist_annotations_failing(file, failure) ==
    IF failure = "open"
    THEN file
    ELSE [exists |-> TRUE, header |-> <<>>, rows |-> <<>>]

PostAnnotation_DiskFailure(cfg, store, file, entry_id, body, failure) ==
    LET plain == PostAnnotation(cfg, store, file, entry_id, body)
    IN  IF plain.response.status # 200
        THEN plain
        ELSE [response |-> [status |-> 500, kind |-> "unhandled"],
              store |-> plain.store,
              file |-> _persist_annotations_failing(file, failure)]

annotation_post_disk_failure ==
    \E entry_id \in RequestIds, body \in Submissions, failure \in DiskFailures :
        LET done == PostAnnotation_DiskFailure(config, data_store, annotation_output,
                                               entry_id, body, failure)
        IN  /\ done.response.kind = "unhandled"
            /\ request' = Request("annotation_post", entry_id, body)
            /\ response' = done.response
            /\ data_store' = done.store
            /\ annotation_output' = done.file
            /\ outbound' = <<>>
            /\ UNCHANGED <<config_file, playwright, config, data_file, workers, handles>>

NextDisk ==
    \/ annotation_post
    \/ annotation_post_disk_failure

SpecDisk == Init /\ [][NextDisk]_vars

\* C29: a save whose write to the output file fails leaves the record
\* and the annotator assignment of the entry as they were before the call
\* and leaves the previous content of the output file intact.
C29_SaveAtomic ==
    [][(request'.op = "annotation_post" /\ response'.kind = "unhandled") =>
          /\ data_store' = data_store
          /\ annotation_output' = annotation_output]_vars


\* ---------------------------------------------------------------------
\* The HTML rewrite as seen through GET /api/proxy/<entry_id>.
\* ---------------------------------------------------------------------

\* the proxy fetched the page of a known entry and the body arrived
PageFetched ==
    /\ request.op = "proxy"
    /\ ~get_entry_raises(data_store, request.id)
    /\ ~request.body.first.failed
    /\ ~request.body.first.body_failed

\* a step of _rewrite_html fails: the parse, or the resolution of a URL
RewriteFails(doc) ==
    \/ ~doc.parses
    \/ \E i \in 1..Len(doc.elements) : ElementRaises(doc.elements[i])

\* C21: when rewriting an HTML response fails in any way the proxy serves
\* the original body with the origin's status and content type instead of
\* failing the request; a response that is not HTML is served unrewritten.
C21_RewriteDegrades ==
    PageFetched =>
        LET origin == request.body.first
        IN  /\ (origin.html /\ RewriteFails(origin.doc)) =>
                  /\ response.kind = "proxied"
                  /\ response.status = origin.status
                  /\ response.html
                  /\ response.body = origin.doc
            /\ ~origin.html =>
                  /\ response.kind = "proxied"
                  /\ response.body = origin.doc

\* the proxy served a page that it rewrote
PageRewritten ==
    /\ PageFetched
    /\ request.body.first.html
    /\ response.kind = "proxied"
    /\ request.body.first.doc.parses

\* C26: after a successful rewrite the head of the served document holds
\* exactly one base element, whose href is the resolved origin URL, whatever
\* the document had: no head, no base, one base or several.
C26_OneBase ==
    PageRewritten =>
        /\ response.body.head
        /\ response.body.bases =
              <<ResolvedUrl(request.body.first,
                            data_store.entries[request.id + 1].url)>>

PointsAtResourceProxy(value) == StartsWith(value, RESOURCE_PROXY_TXT)

\* C27: in a rewritten page an attribute of the (tag, attribute) table that
\* is present and non-empty points at /api/proxy/resource?url=<the quoted
\* absolute URL> exactly when it is the href of an anchor whose resolved path
\* ends in ".pdf" in any letter case; any other one that holds a single URL
\* is the absolute URL, a srcset has each candidate resolved, and attributes
\* outside the table or empty are left alone.
C27_PdfOnlyException ==
    PageRewritten =>
        LET before == request.body.first.doc.elements
            after == response.body.elements
            base_url == ResolvedUrl(request.body.first,
                                    data_store.entries[request.id + 1].url)
        IN  /\ Len(after) = Len(before)
            /\ \A i \in 1..Len(before) :
                  LET absolute == urljoin(base_url, before[i].value)
                      pdf_anchor ==
                          /\ before[i].tag = "a" /\ before[i].attr = "href"
                          /\ EndsWith(Lower(urlparse_path(absolute)), PDF_TXT)
                  IN  IF ~Rewritable(before[i]) THEN after[i] = before[i]
                      ELSE /\ PointsAtResourceProxy(after[i].value) <=> pdf_anchor
                           /\ pdf_anchor =>
                                 after[i].value = RESOURCE_PROXY_TXT \o quote(absolute)
                           /\ (~pdf_anchor /\ before[i].attr # "srcset") =>
                                 after[i].value = absolute
                           /\ before[i].attr = "srcset" =>
                                 after[i].value = _rewrite_srcset(before[i].value, base_url)

C27_Witness ==
    /\ PageRewritten
    /\ request.body.first.doc.elements = <<Element("a", "href", <<"/","B",".","P","D","F">>)>>
    /\ response.body.elements = <<Element("a", "href", <<"/","a","p","i","/","p","r","o","x","y","/","r","e","s","o","u","r","c","e","?","u","r","l","=","h","t","t","p","%","3","A","%","2","F","%","2","F","h","%","2","F","B",".","P","D","F">>)>>


(***************************************************************************)
(* The Playwright worker (playwright_launcher.py 163-219): one thread owns *)
(* the browser page and serves the commands that other threads put on its  *)
(* queue; each caller blocks on the response queue it made for its call.   *)
(***************************************************************************)
Enqueue(item) ==
    [playwright EXCEPT !.queue = Append(@, item), !.enqueued = Append(@, item)]

\* run() up to ready.set(): the browser launches, or the launch raises and
\* the thread dies with neither event set
worker_launch ==
    /\ playwright.thread = "launching"
    /\ \E launched \in BOOLEAN :
          playwright' = IF launched
                        THEN [playwright EXCEPT !.thread = "serving", !.ready = TRUE]
                        ELSE [playwright EXCEPT !.thread = "crashed"]
    /\ UNCHANGED <<config_file, config, data_file, annotation_output, data_store,
                   request, response, outbound, workers, handles>>

\* self.queue.get(), and for "__quit__" the answer and the break
worker_get ==
    /\ playwright.thread = "serving"
    /\ playwright.queue # <<>>
    /\ LET item == Head(playwright.queue)
       IN  playwright' =
              IF item.command = QUIT
              THEN [playwright EXCEPT !.queue = Tail(@), !.handled = Append(@, item),
                                      !.put = Append(@, item), !.thread = "closing"]
              ELSE [playwright EXCEPT !.queue = Tail(@), !.handled = Append(@, item),
                                      !.current = item, !.thread = "running"]
    /\ UNCHANGED <<config_file, config, data_file, annotation_output, data_store,
                   request, response, outbound, workers, handles>>

\* the controller method runs (an exception gives False) and response.put
worker_run ==
    /\ playwright.thread = "running"
    /\ playwright' = [playwright EXCEPT !.put = Append(@, playwright.current),
                                        !.current = NoCommand, !.thread = "serving"]
    /\ UNCHANGED <<config_file, config, data_file, annotation_output, data_store,
                   request, response, outbound, workers, handles>>

\* browser.close() and self.stopped.set()
worker_close ==
    /\ playwright.thread = "closing"
    /\ playwright' = [playwright EXCEPT !.thread = "terminated", !.stopped = TRUE]
    /\ UNCHANGED <<config_file, config, data_file, annotation_output, data_store,
                   request, response, outbound, workers, handles>>

\* call(): entered, waiting on self.ready
call_begin(c) ==
    /\ playwright.pc[c] = "idle"
    /\ playwright.calls[c] < MaxCalls
    /\ playwright' = [playwright EXCEPT !.pc[c] = "wait_ready", !.calls[c] = @ + 1]
    /\ UNCHANGED <<config_file, config, data_file, annotation_output, data_store,
                   request, response, outbound, workers, handles>>

\* call(): ready is set, the command goes on the queue with a new response queue
call_enqueue(c) ==
    /\ playwright.pc[c] = "wait_ready"
    /\ playwright.ready
    /\ \E command \in {"show_entry", "browser_back"} :
          playwright' = [Enqueue(Command(command, c, playwright.calls[c]))
                            EXCEPT !.pc[c] = "wait_response"]
    /\ UNCHANGED <<config_file, config, data_file, annotation_output, data_store,
                   request, response, outbound, workers, handles>>

\* call(): ready.wait(timeout=10) ran out, the call returns False
call_timeout(c) ==
    /\ playwright.pc[c] = "wait_ready"
    /\ ~playwright.ready
    /\ playwright' = [playwright EXCEPT !.pc[c] = "idle"]
    /\ UNCHANGED <<config_file, config, data_file, annotation_output, data_store,
                   request, response, outbound, workers, handles>>

\* call(): response.get() returns once the worker has put the answer
call_return(c) ==
    /\ playwright.pc[c] = "wait_response"
    /\ \E i \in 1..Len(playwright.put) :
          /\ playwright.put[i].caller = c
          /\ playwright.put[i].n = playwright.calls[c]
    /\ playwright' = [playwright EXCEPT !.pc[c] = "idle"]
    /\ UNCHANGED <<config_file, config, data_file, annotation_output, data_store,
                   request, response, outbound, workers, handles>>

\* stop(), called by launch() once the window loop ends; launch() gets
\* there only after worker.ready was set
stop_enqueue ==
    /\ playwright.pc["main"] = "idle"
    /\ playwright.calls["main"] = 0
    /\ playwright.ready
    /\ playwright' = [Enqueue(Command(QUIT, "main", 1))
                         EXCEPT !.pc["main"] = "wait_response", !.calls["main"] = 1]
    /\ UNCHANGED <<config_file, config, data_file, annotation_output, data_store,
                   request, response, outbound, workers, handles>>

\* stop(): response.get() returns, then self.join(timeout=5)
stop_return ==
    /\ playwright.pc["main"] = "wait_response"
    /\ \E i \in 1..Len(playwright.put) : playwright.put[i].caller = "main"
    /\ playwright' = [playwright EXCEPT !.pc["main"] = "joining"]
    /\ UNCHANGED <<config_file, config, data_file, annotation_output, data_store,
                   request, response, outbound, workers, handles>>

stop_join ==
    /\ playwright.pc["main"] = "joining"
    /\ playwright' = [playwright EXCEPT !.pc["main"] = "stopped"]
    /\ UNCHANGED <<config_file, config, data_file, annotation_output, data_store,
                   request, response, outbound, workers, handles>>

InitWorker ==
    /\ Init
    /\ ~annotation_output.exists
    /\ Len(data_file.rows) = 1
    /\ config.annotator_column = None

NextWorker ==
    \/ worker_launch
    \/ worker_get
    \/ worker_run
    \/ worker_close
    \/ \E c \in BridgeThreads : call_begin(c)
    \/ \E c \in BridgeThreads : call_enqueue(c)
    \/ \E c \in BridgeThreads : call_timeout(c)
    \/ \E c \in BridgeThreads : call_return(c)
    \/ stop_enqueue
    \/ stop_return
    \/ stop_join

\* every thread that can take a step eventually takes one
SpecWorker == InitWorker /\ [][NextWorker]_vars /\ WF_vars(NextWorker)

IsPrefix(s, t) == Len(s) <= Len(t) /\ SubSeq(t, 1, Len(s)) = s

\* C30: the worker takes the commands one at a time in the order they were
\* enqueued, puts exactly one response for each command it takes, on that
\* command's own response queue, and every call() and stop() that waits for
\* its response eventually gets it, also when the command was enqueued
\* after "__quit__" or after the worker thread ended.
C30_WorkerProtocol ==
    /\ [](/\ IsPrefix(playwright.handled, playwright.enqueued)
          /\ \A i, j \in 1..Len(playwright.put) :
                playwright.put[i] = playwright.put[j] => i = j
          /\ \A i \in 1..Len(playwright.put) :
                \E j \in 1..Len(playwright.handled) :
                    playwright.handled[j] = playwright.put[i])
    /\ \A c \in Callers :
          (playwright.pc[c] = "wait_response") ~> (playwright.pc[c] # "wait_response")


\* C24: the store in service was built from the configuration in service:
\* a refresh that fails leaves state.config and state.data_store as the pair
\* that was in service before the call.
C24_ConsistentPair == data_store.config = config

====
